---- MODULE Spec2Model ----
(***************************************************************************)
(* User-account service: the use cases (CreateUser, LoginUser, GetUser,    *)
(* UpdateUser, DeleteUser, LinkSocialAccount), the User aggregate and the  *)
(* MongoDB repository behind them.                                         *)
(*                                                                         *)
(* Every `await` on the repository is a point where another request may    *)
(* run, so each use case is split into one action per repository call.     *)
(* A behaviour is a store of accounts and up to MaxExecutions use-case     *)
(* executions on it, interleaved in any order.  An execution holds the     *)
(* aggregate it has loaded until it writes it back, and then what it       *)
(* answered.                                                               *)
(*                                                                         *)
(* Left out: wall-clock fields (createdAt, updatedAt, lastLoginAt,         *)
(* lastActiveAt, suspendedAt, linkedAt), uuid values of sub-records,       *)
(* providerEmail/providerData, phoneVerified, customFields and audit       *)
(* fields.  Strings that the code normalises or matches (emails,           *)
(* usernames) are tuples of one-character strings.                         *)
(***************************************************************************)
EXTENDS Integers, Sequences, FiniteSets, TLC

VARIABLES users, executions

vars == <<users, executions>>

(***************************************************************************)
(* Bounds                                                                  *)
(***************************************************************************)
\* number of user documents the collection may hold
MaxUsers == 3
\* number of use-case executions in one behaviour
MaxExecutions == 2
\* successful logins recorded per account
MaxLoginCount == 2

UserIds == 1..MaxUsers
Slots == 1..MaxExecutions

(***************************************************************************)
(* Strings                                                                 *)
(***************************************************************************)
IsSpace(ch) == ch = " "

LowerChar(ch) ==
    CASE ch = "A" -> "a"
      [] ch = "B" -> "b"
      [] ch = "C" -> "c"
      [] OTHER -> ch

ToLowerCase(s) == [i \in 1..Len(s) |-> LowerChar(s[i])]

RECURSIVE TrimStart(_)
TrimStart(s) ==
    IF s # <<>> /\ IsSpace(Head(s)) THEN TrimStart(Tail(s)) ELSE s

RECURSIVE TrimEnd(_)
TrimEnd(s) ==
    IF s # <<>> /\ IsSpace(s[Len(s)]) THEN TrimEnd(SubSeq(s, 1, Len(s) - 1)) ELSE s

Trim(s) == TrimEnd(TrimStart(s))

RECURSIVE Join(_)
\* Array.prototype.join(', ')
Join(parts) ==
    IF parts = <<>> THEN ""
    ELSE IF Len(parts) = 1 THEN parts[1]
    ELSE parts[1] \o ", " \o Join(Tail(parts))

(***************************************************************************)
(* Value objects                                                           *)
(***************************************************************************)
\* /^[^\s@]+@[^\s@]+\.[^\s@]+$/
EmailIsValid(email) ==
    /\ \A j \in 1..Len(email) : ~IsSpace(email[j])
    /\ \E i \in 2..Len(email) :
          /\ email[i] = "@"
          /\ \A j \in 1..Len(email) : email[j] = "@" => j = i
          /\ \E k \in (i + 2)..(Len(email) - 1) : email[k] = "."

\* this.value = email.toLowerCase().trim()
EmailValue(email) == Trim(ToLowerCase(email))

UsernameChars == {"a", "b", "c", "n", "o", "t", "A", "B", "C", "_", "1"}
UsernameMinLength == 3
UsernameMaxLength == 50

UsernameIsValid(username) ==
    /\ username # <<>>
    /\ Len(Trim(username)) >= UsernameMinLength
    /\ Len(Trim(username)) <= UsernameMaxLength
    /\ \A j \in 1..Len(Trim(username)) : Trim(username)[j] \in UsernameChars

UsernameValue(username) == Trim(username)

PasswordMinLength == 8

PasswordIsValid(password) == password # "" /\ Len(password) >= PasswordMinLength

(***************************************************************************)
(* AuthService: bcrypt                                                     *)
(***************************************************************************)
hashPassword(password) == "bcrypt:" \o password

comparePassword(password, hash) == hash = hashPassword(password)

(***************************************************************************)
(* User aggregate                                                          *)
(***************************************************************************)
Roles == {"user", "admin"}

\* the absent aggregate (null)
NoUser == [id |-> 0]

DefaultPreferences ==
    [language |-> "en",
     timezone |-> "UTC",
     notifications |-> [email |-> TRUE, push |-> TRUE, sms |-> FALSE],
     privacy |-> [profileVisibility |-> "public", showEmail |-> FALSE, showPhone |-> FALSE]]

\* mutant: the email verification is not required
canLoginUnverified(user) == user.isActive /\ ~user.isSuspended

canLogin(user) == user.isActive /\ ~user.isSuspended /\ user.emailVerified

\* { ...target, ...partial } on records given as functions over field names
Merge(target, partial) ==
    [k \in (DOMAIN target) \cup (DOMAIN partial) |->
        IF k \in DOMAIN partial THEN partial[k] ELSE target[k]]

updateProfile(user, profile) == [user EXCEPT !.profile = Merge(user.profile, profile)]

updatePreferences(user, preferences) ==
    [user EXCEPT !.preferences = Merge(user.preferences, preferences)]

\* mutant: the flag is left as it was
deactivateKeepsActive(user) == user

deactivate(user) == [user EXCEPT !.isActive = FALSE]

suspend(user, reason) == [user EXCEPT !.isSuspended = TRUE, !.suspendedReason = reason]

recordLogin(user) == [user EXCEPT !.loginCount = @ + 1]

\* mutant: the addresses already there keep their flag
addAddressKeepsDefaults(user, address) ==
    LET first == Len(user.addresses) = 0 \/ address.isDefault
        newAddress == [id |-> Len(user.addresses) + 1, type |-> address.type,
                       isDefault |-> (first \/ address.isDefault)]
    IN  [user EXCEPT !.addresses = Append(@, newAddress)]

\* the uuid of the new address is its position; the first address and an
\* address given as default become the default and every other flag is cleared
addAddress(user, address) ==
    LET first == Len(user.addresses) = 0 \/ address.isDefault
        newAddress == [id |-> Len(user.addresses) + 1, type |-> address.type,
                       isDefault |-> (first \/ address.isDefault)]
        others == IF first
                  THEN [a \in DOMAIN user.addresses |-> [user.addresses[a] EXCEPT !.isDefault = FALSE]]
                  ELSE user.addresses
    IN  [user EXCEPT !.addresses = Append(others, newAddress)]

\* index of the first active account of the provider, 0 for findIndex's -1
RECURSIVE FindActiveIndex(_, _, _)
FindActiveIndex(accounts, provider, i) ==
    IF i > Len(accounts) THEN 0
    ELSE IF accounts[i].provider = provider /\ accounts[i].isActive THEN i
    ELSE FindActiveIndex(accounts, provider, i + 1)

\* mutant: the account is appended whether or not the provider is linked
linkSocialAccountAppends(user, provider, providerId) ==
    [user EXCEPT !.socialAccounts =
        Append(@, [provider |-> provider, providerId |-> providerId, isActive |-> TRUE])]

linkSocialAccount(user, provider, providerId) ==
    LET existingAccountIndex == FindActiveIndex(user.socialAccounts, provider, 1)
    IN  IF existingAccountIndex # 0
        THEN [user EXCEPT !.socialAccounts[existingAccountIndex].providerId = providerId]
        ELSE [user EXCEPT !.socialAccounts =
                 Append(@, [provider |-> provider, providerId |-> providerId, isActive |-> TRUE])]

(***************************************************************************)
(* MongoUserRepository                                                     *)
(***************************************************************************)
StoredIds == DOMAIN users

\* findById: the document or null
findById(id) == IF id \in StoredIds THEN users[id] ELSE NoUser

\* findOne({ email }): the documents the filter matches; findOne returns one of them
findByEmail(emailValue) == {users[i] : i \in {j \in StoredIds : users[j].email = emailValue}}

\* findOne with three dotted paths on the socialAccounts array: each path is
\* matched by any element of the array, not all three by the same element
findBySocialAccount(provider, providerId) ==
    {users[i] : i \in {j \in StoredIds :
        /\ \E a \in 1..Len(users[j].socialAccounts) : users[j].socialAccounts[a].provider = provider
        /\ \E a \in 1..Len(users[j].socialAccounts) : users[j].socialAccounts[a].providerId = providerId
        /\ \E a \in 1..Len(users[j].socialAccounts) : users[j].socialAccounts[a].isActive}}

\* findOne({ $or: [{ email }, { username }] }): the documents the filter matches
existsMatches(emailValue, usernameValue) ==
    {users[i] : i \in {j \in StoredIds :
        users[j].email = emailValue \/ users[j].username = usernameValue}}

\* the conflicts computed from the one document findOne returned
existsConflicts(existingUser, emailValue, usernameValue) ==
    [email |-> existingUser.email = emailValue,
     username |-> existingUser.username = usernameValue]

\* mutant: the schema declares no unique index
DuplicateKeyNoIndex(emailValue, usernameValue) == ""

\* the unique indexes on email and on username: the key pattern a save violates
DuplicateKey(emailValue, usernameValue) ==
    IF \E j \in StoredIds : users[j].email = emailValue THEN "email"
    ELSE IF \E j \in StoredIds : users[j].username = usernameValue THEN "username"
    ELSE ""

\* findByIdAndUpdate(user.id, { ...userProps }): every field is overwritten
\* with the value the aggregate holds
update(user) == [users EXCEPT ![user.id] = user]

(***************************************************************************)
(* Executions                                                              *)
(***************************************************************************)
Idle == [op |-> "idle", pc |-> "idle"]

HasFreeSlot == \E s \in Slots : executions[s] = Idle

FreeSlot == CHOOSE s \in Slots : executions[s] = Idle /\ \A t \in Slots : t < s => executions[t] # Idle

\* an execution suspended at an await, holding the aggregate it has built
Pending(op, pc, req, user) ==
    [op |-> op, pc |-> pc, req |-> req, user |-> user, error |-> "", result |-> NoUser]

\* a finished execution: error = "" for a returned value, user = the aggregate
\* it had read or built, result = the aggregate it returned
Done(op, req, error, user, result) ==
    [op |-> op, pc |-> "done", req |-> req, user |-> user, error |-> error, result |-> result]

\* throw new Error(message) before the first await that suspends
Throw(op, req, message, loaded) ==
    /\ executions' = [executions EXCEPT ![FreeSlot] = Done(op, req, message, loaded, NoUser)]
    /\ UNCHANGED users

Suspend(op, pc, req, user) ==
    /\ executions' = [executions EXCEPT ![FreeSlot] = Pending(op, pc, req, user)]
    /\ UNCHANGED users

\* userRepository.update(user) as the last await of an execution: the document
\* is overwritten and returned, or there is none
UpdateAndReturn(s, result) ==
    IF executions[s].user.id \in StoredIds
    THEN /\ users' = update(executions[s].user)
         /\ executions' = [executions EXCEPT ![s] =
                Done(executions[s].op, executions[s].req, "", executions[s].user, result)]
    ELSE /\ executions' = [executions EXCEPT ![s] =
                Done(executions[s].op, executions[s].req,
                     "Error updating user: Error: User not found", executions[s].user, NoUser)]
         /\ UNCHANGED users

(***************************************************************************)
(* LoginUser                                                               *)
(***************************************************************************)
\* the message when no account has the email
UserNotFoundMessage == "Invalid email or password"

\* mutant: the wrong-password branch says which credential failed
WrongPasswordMessageSpecific == "Invalid password"

\* the message when the password does not match the hash
WrongPasswordMessage == "Invalid email or password"

\* mutant: only the first failing condition is reported
LoginReasonsFirstOnly(user) ==
    IF ~user.isActive THEN <<"account is inactive">>
    ELSE IF user.isSuspended THEN <<"account is suspended">>
    ELSE <<"email is not verified">>

LoginReasons(user) ==
    (IF ~user.isActive THEN <<"account is inactive">> ELSE <<>>)
    \o (IF user.isSuspended THEN <<"account is suspended">> ELSE <<>>)
    \o (IF ~user.emailVerified THEN <<"email is not verified">> ELSE <<>>)

\* execute up to the await of userRepository.update
LoginUserFind(req) ==
    /\ HasFreeSlot
    /\ IF req.email = <<>> \/ req.password = ""
       THEN Throw("LoginUser", req, "Email and password are required", NoUser)
       ELSE IF ~EmailIsValid(req.email)
       THEN Throw("LoginUser", req, "Invalid email format", NoUser)
       ELSE IF findByEmail(EmailValue(req.email)) = {}
       THEN Throw("LoginUser", req, UserNotFoundMessage, NoUser)
       ELSE \E user \in findByEmail(EmailValue(req.email)) :
              IF ~canLogin(user)
              THEN Throw("LoginUser", req, "Cannot login: " \o Join(LoginReasons(user)), user)
              ELSE IF user.passwordHash = ""
              THEN Throw("LoginUser", req, "Password not set for this account", user)
              ELSE IF ~comparePassword(req.password, user.passwordHash)
              THEN Throw("LoginUser", req, WrongPasswordMessage, user)
              ELSE /\ user.loginCount < MaxLoginCount
                   /\ Suspend("LoginUser", "update", req, recordLogin(user))

\* userRepository.update(user), then the tokens and the return
LoginUserUpdate(s) ==
    /\ executions[s].op = "LoginUser"
    /\ executions[s].pc = "update"
    /\ UpdateAndReturn(s, executions[s].user)

(***************************************************************************)
(* GetUser                                                                 *)
(***************************************************************************)
ProfileIsPrivate == "This profile is private"

\* mutant: the owner is not recognised
canAccessFullProfileAdminOnly(req) == req.requestingUserRole = "admin"

canAccessFullProfile(req) ==
    req.requestingUserRole = "admin" \/ req.requestingUserId = req.userId

GetUser(req) ==
    /\ HasFreeSlot
    /\ LET targetUser == findById(req.userId)
       IN  IF targetUser = NoUser
           THEN Throw("GetUser", req, "User not found", NoUser)
           ELSE IF ~canAccessFullProfile(req)
                   /\ targetUser.preferences.privacy.profileVisibility = "private"
           THEN Throw("GetUser", req, ProfileIsPrivate, targetUser)
           ELSE /\ executions' = [executions EXCEPT ![FreeSlot] =
                       Done("GetUser", req, "", targetUser, targetUser)]
                /\ UNCHANGED users

(***************************************************************************)
(* UpdateUser                                                              *)
(***************************************************************************)
UpdateForbidden == "You can only update your own profile or you must be an admin"

\* execute up to the await of userRepository.update; a request leaves out
\* profile or preferences by having no such field
\* mutant: any requester with an id passes
canModifyAnyRequester(req) == req.requestingUserRole = "admin" \/ req.requestingUserId # 0

canModify(req) == req.requestingUserRole = "admin" \/ req.requestingUserId = req.userId

UpdateUserFind(req) ==
    /\ HasFreeSlot
    /\ LET user == findById(req.userId)
           withProfile ==
               IF "profile" \in DOMAIN req THEN updateProfile(user, req.profile) ELSE user
           withPreferences ==
               IF "preferences" \in DOMAIN req
               THEN updatePreferences(withProfile, req.preferences)
               ELSE withProfile
       IN  IF user = NoUser
           THEN Throw("UpdateUser", req, "User not found", NoUser)
           ELSE IF ~canModify(req)
           THEN Throw("UpdateUser", req, UpdateForbidden, user)
           ELSE Suspend("UpdateUser", "update", req, withPreferences)

UpdateUserSave(s) ==
    /\ executions[s].op = "UpdateUser"
    /\ executions[s].pc = "update"
    /\ UpdateAndReturn(s, executions[s].user)

(***************************************************************************)
(* DeleteUser                                                              *)
(***************************************************************************)
DeleteForbidden == "You can only delete your own account or you must be an admin"
AdminSelfDelete == "Administrators cannot delete their own account"
DeletedReason == "Account deleted by user"

canDelete(req) == req.requestingUserRole = "admin" \/ req.requestingUserId = req.userId

DeleteUserFind(req) ==
    /\ HasFreeSlot
    /\ LET user == findById(req.userId)
       IN  IF user = NoUser
           THEN Throw("DeleteUser", req, "User not found", NoUser)
           ELSE IF ~canDelete(req)
           THEN Throw("DeleteUser", req, DeleteForbidden, user)
           ELSE IF req.requestingUserId = req.userId /\ req.requestingUserRole = "admin"
           THEN Throw("DeleteUser", req, AdminSelfDelete, user)
           ELSE Suspend("DeleteUser", "update", req, suspend(deactivate(user), DeletedReason))

\* mutant: the document is removed (userRepository.delete) instead of updated
DeleteUserSaveHard(s) ==
    /\ executions[s].op = "DeleteUser"
    /\ executions[s].pc = "update"
    /\ users' = [i \in (DOMAIN users) \ {executions[s].user.id} |-> users[i]]
    /\ executions' = [executions EXCEPT ![s] =
           Done("DeleteUser", executions[s].req, "", executions[s].user, NoUser)]

\* the response carries a message and a date, no aggregate
DeleteUserSave(s) ==
    /\ executions[s].op = "DeleteUser"
    /\ executions[s].pc = "update"
    /\ UpdateAndReturn(s, NoUser)

(***************************************************************************)
(* LinkSocialAccount                                                       *)
(***************************************************************************)
LinkForbidden == "You can only link social accounts to your own profile"

AlreadyLinked(provider) == "This " \o provider \o " account is already linked to another user"

\* the authorization check and findById
\* canModify of LinkSocialAccount.execute
canModifySocialAccounts(req) ==
    req.requestingUserRole = "admin" \/ req.requestingUserId = req.userId

LinkSocialAccountFind(req) ==
    /\ HasFreeSlot
    /\ LET user == findById(req.userId)
       IN  IF ~canModifySocialAccounts(req)
           THEN Throw("LinkSocialAccount", req, LinkForbidden, NoUser)
           ELSE IF user = NoUser
           THEN Throw("LinkSocialAccount", req, "User not found", NoUser)
           ELSE Suspend("LinkSocialAccount", "check", req, user)

\* findBySocialAccount, the comparison with the target and user.linkSocialAccount
LinkSocialAccountCheck(s) ==
    /\ executions[s].op = "LinkSocialAccount"
    /\ executions[s].pc = "check"
    /\ UNCHANGED users
    /\ LET req == executions[s].req
           found == findBySocialAccount(req.provider, req.providerId)
       IN  \E existingUser \in (IF found = {} THEN {NoUser} ELSE found) :
              IF existingUser # NoUser /\ existingUser.id # req.userId
              THEN executions' = [executions EXCEPT ![s] =
                       Done("LinkSocialAccount", req, AlreadyLinked(req.provider),
                            executions[s].user, NoUser)]
              ELSE executions' = [executions EXCEPT
                       ![s].pc = "update",
                       ![s].user = linkSocialAccount(@, req.provider, req.providerId)]

LinkSocialAccountSave(s) ==
    /\ executions[s].op = "LinkSocialAccount"
    /\ executions[s].pc = "update"
    /\ UpdateAndReturn(s, executions[s].user)

(***************************************************************************)
(* CreateUser                                                              *)
(***************************************************************************)
ExistsConflictMessages(conflicts) ==
    (IF conflicts.email THEN <<"Email already registered">> ELSE <<>>)
    \o (IF conflicts.username THEN <<"Username already taken">> ELSE <<>>)

\* mutant: the new account counts as verified and has logged in once
CreateUserEntityVerified(req) ==
    [id |-> 0,
     username |-> UsernameValue(req.username),
     email |-> EmailValue(req.email),
     passwordHash |-> hashPassword(req.password),
     role |-> IF "role" \in DOMAIN req THEN req.role ELSE "user",
     profile |-> [firstName |-> req.firstName, lastName |-> req.lastName],
     addresses |-> <<>>,
     socialAccounts |-> <<>>,
     emailVerified |-> TRUE,
     isActive |-> TRUE,
     isSuspended |-> FALSE,
     suspendedReason |-> "",
     preferences |-> DefaultPreferences,
     loginCount |-> 1]

\* User.create with the properties CreateUser passes; the id is assigned on save
CreateUserEntity(req) ==
    [id |-> 0,
     username |-> UsernameValue(req.username),
     email |-> EmailValue(req.email),
     passwordHash |-> hashPassword(req.password),
     role |-> IF "role" \in DOMAIN req THEN req.role ELSE "user",
     profile |-> [firstName |-> req.firstName, lastName |-> req.lastName],
     addresses |-> <<>>,
     socialAccounts |-> <<>>,
     emailVerified |-> FALSE,
     isActive |-> TRUE,
     isSuspended |-> FALSE,
     suspendedReason |-> "",
     preferences |-> DefaultPreferences,
     loginCount |-> 0]

CreatesPending ==
    Cardinality({s \in Slots : executions[s].op = "CreateUser" /\ executions[s].pc = "create"})

\* the value objects, userRepository.exists, the hash and User.create
CreateUserExists(req) ==
    /\ HasFreeSlot
    /\ IF ~EmailIsValid(req.email)
       THEN Throw("CreateUser", req, "Invalid email format", NoUser)
       ELSE IF ~UsernameIsValid(req.username)
       THEN Throw("CreateUser", req, "Invalid username format", NoUser)
       ELSE IF ~PasswordIsValid(req.password)
       THEN Throw("CreateUser", req, "Password must be at least 8 characters long", NoUser)
       ELSE IF existsMatches(EmailValue(req.email), UsernameValue(req.username)) # {}
       THEN \E existingUser \in existsMatches(EmailValue(req.email), UsernameValue(req.username)) :
               Throw("CreateUser", req,
                     Join(ExistsConflictMessages(existsConflicts(
                         existingUser, EmailValue(req.email), UsernameValue(req.username)))),
                     existingUser)
       ELSE /\ Cardinality(StoredIds) + CreatesPending < MaxUsers
            /\ Suspend("CreateUser", "create", req, CreateUserEntity(req))

\* the _id default of the schema: an id no document has
NewId == CHOOSE i \in UserIds : i \notin StoredIds /\ \A j \in UserIds : j < i => j \in StoredIds

\* userRepository.create: the save is refused by a unique index, or inserts
CreateUserSave(s) ==
    /\ executions[s].op = "CreateUser"
    /\ executions[s].pc = "create"
    /\ LET user == executions[s].user
           field == DuplicateKey(user.email, user.username)
       IN  IF field # ""
           THEN /\ executions' = [executions EXCEPT ![s] =
                       Done("CreateUser", executions[s].req, field \o " already exists", user, NoUser)]
                /\ UNCHANGED users
           ELSE /\ users' = users @@ (NewId :> [user EXCEPT !.id = NewId])
                /\ executions' = [executions EXCEPT ![s] =
                       Done("CreateUser", executions[s].req, "", user, [user EXCEPT !.id = NewId])
                       @@ [requiresEmailVerification |-> TRUE]]

(***************************************************************************)
(* Stored accounts and requests                                            *)
(***************************************************************************)
EmailA == <<"a", "@", "b", ".", "c">>
EmailB == <<"b", "@", "b", ".", "c">>
EmailC == <<"c", "@", "b", ".", "c">>
UsernameAnn == <<"a", "n", "n">>
UsernameBob == <<"b", "o", "b">>
UsernameCat == <<"c", "a", "t">>
PasswordOne == "password1"
PasswordTwo == "password2"

\* a stored account; the flags are those an administrator may have set
Account(id, username, email, role, passwordHash, isActive, isSuspended, emailVerified, visibility) ==
    [id |-> id,
     username |-> username,
     email |-> email,
     passwordHash |-> passwordHash,
     role |-> role,
     profile |-> [firstName |-> "F", lastName |-> "L"],
     addresses |-> <<>>,
     socialAccounts |-> <<>>,
     emailVerified |-> emailVerified,
     isActive |-> isActive,
     isSuspended |-> isSuspended,
     suspendedReason |-> IF isSuspended THEN "policy" ELSE "",
     preferences |-> [DefaultPreferences EXCEPT !.privacy.profileVisibility = visibility],
     loginCount |-> 0]

With(req, field, value) == req @@ (field :> value)

Visibilities == {"public", "friends", "private"}

Admin1 == Account(1, UsernameAnn, EmailA, "admin", hashPassword(PasswordOne), TRUE, FALSE, TRUE, "public")

User2(visibility) ==
    Account(2, UsernameBob, EmailB, "user", hashPassword(PasswordOne), TRUE, FALSE, TRUE, visibility)

\* who asks: the stored administrator, the stored user, and an id of no stored account
Requesters ==
    {[requestingUserId |-> 1, requestingUserRole |-> "admin"],
     [requestingUserId |-> 2, requestingUserRole |-> "user"],
     [requestingUserId |-> 3, requestingUserRole |-> "user"]}

\* a request on one user: the target and the requester
OnUser == {With(r, "userId", id) : r \in Requesters, id \in {1, 2, 3}}

PrivatePreferences ==
    [privacy |-> [profileVisibility |-> "private", showEmail |-> FALSE, showPhone |-> FALSE]]

LoginRequests == [email : {EmailB, EmailC}, password : {PasswordOne, PasswordTwo}]
UpdateRequests == {With(r, "preferences", PrivatePreferences) : r \in OnUser}
LinkRequests == {With(With(r, "provider", "google"), "providerId", "p1") : r \in OnUser}
CreateRequests ==
    [email : {EmailC, EmailB}, username : {UsernameCat}, password : {PasswordOne},
     firstName : {"F"}, lastName : {"L"}]

Init ==
    /\ \E visibility \in Visibilities : users = (1 :> Admin1) @@ (2 :> User2(visibility))
    /\ executions = [s \in Slots |-> Idle]

Next ==
    \/ \E req \in CreateRequests : CreateUserExists(req)
    \/ \E s \in Slots : CreateUserSave(s)
    \/ \E req \in LoginRequests : LoginUserFind(req)
    \/ \E s \in Slots : LoginUserUpdate(s)
    \/ \E req \in OnUser : GetUser(req)
    \/ \E req \in UpdateRequests : UpdateUserFind(req)
    \/ \E s \in Slots : UpdateUserSave(s)
    \/ \E req \in OnUser : DeleteUserFind(req)
    \/ \E s \in Slots : DeleteUserSave(s)
    \/ \E req \in LinkRequests : LinkSocialAccountFind(req)
    \/ \E s \in Slots : LinkSocialAccountCheck(s)
    \/ \E s \in Slots : LinkSocialAccountSave(s)

Spec == Init /\ [][Next]_vars

(***************************************************************************)
(* Steps of one execution                                                  *)
(***************************************************************************)
\* the execution in slot s takes its first step
Starts(s) == executions[s] = Idle /\ executions'[s] # Idle

\* the execution in slot s answers
Finishes(s) == executions[s].pc # "done" /\ executions'[s].pc = "done"

Unauthorized(req) == req.requestingUserRole # "admin" /\ req.requestingUserId # req.userId

ModifyingUseCases == {"UpdateUser", "DeleteUser", "LinkSocialAccount"}

ForbiddenMessage(op) ==
    CASE op = "UpdateUser" -> UpdateForbidden
      [] op = "DeleteUser" -> DeleteForbidden
      [] op = "LinkSocialAccount" -> LinkForbidden

(***************************************************************************)
(* C3                                                                      *)
(***************************************************************************)
\* C3, as claimed: UpdateUser, DeleteUser and LinkSocialAccount by a requester
\* who is not admin and not the target fail with the forbidden error, for
\* every target userId.
C3_ForbiddenForEveryTarget ==
    \A s \in Slots :
        (executions[s].op \in ModifyingUseCases /\ Unauthorized(executions[s].req))
        => (executions[s].pc = "done"
            /\ executions[s].error = ForbiddenMessage(executions[s].op))

\* C3, amended: such a request is refused in its first step and changes no
\* user record; the error is the forbidden error when the target is stored
\* (and always for LinkSocialAccount), and 'User not found' when UpdateUser
\* or DeleteUser is asked for a userId that no stored user has.
C3_ForbiddenOrNotFound ==
    [][\A s \in Slots :
          (Starts(s)
           /\ executions'[s].op \in ModifyingUseCases
           /\ Unauthorized(executions'[s].req))
          => (/\ executions'[s].pc = "done"
              /\ users' = users
              /\ executions'[s].error =
                    IF executions'[s].op = "LinkSocialAccount"
                       \/ executions'[s].req.userId \in DOMAIN users
                    THEN ForbiddenMessage(executions'[s].op)
                    ELSE "User not found")]_vars

\* C3 witness: an UpdateUser and a LinkSocialAccount, each by a requester who
\* is neither admin nor the stored target, both refused as forbidden.
C3_Witness ==
    \E s, t \in Slots :
        /\ executions[s].op = "UpdateUser"
        /\ Unauthorized(executions[s].req)
        /\ executions[s].req.userId \in DOMAIN users
        /\ executions[s].error = UpdateForbidden
        /\ executions[t].op = "LinkSocialAccount"
        /\ Unauthorized(executions[t].req)
        /\ executions[t].error = LinkForbidden

(***************************************************************************)
(* C4                                                                      *)
(***************************************************************************)
DeleteStartsOn(s) ==
    /\ Starts(s)
    /\ executions'[s].op = "DeleteUser"
    /\ executions'[s].req.userId \in DOMAIN users

DeleteAnswers(s) ==
    /\ executions[s].op = "DeleteUser"
    /\ executions[s].pc = "update"
    /\ executions'[s].pc = "done"

\* C4: DeleteUser on a stored target. A non-admin deleting their own id and
\* an admin deleting another id are not refused, and answer without error
\* with the account inactive and suspended; an admin deleting their own id
\* is refused with the forbidden error and the store is unchanged.
C4_DeleteUserOutcomes ==
    [][\A s \in Slots :
          /\ (DeleteStartsOn(s)
              /\ executions'[s].req.requestingUserRole # "admin"
              /\ executions'[s].req.requestingUserId = executions'[s].req.userId)
             => executions'[s].pc = "update"
          /\ (DeleteStartsOn(s)
              /\ executions'[s].req.requestingUserRole = "admin"
              /\ executions'[s].req.requestingUserId # executions'[s].req.userId)
             => executions'[s].pc = "update"
          /\ DeleteAnswers(s)
             => (/\ executions'[s].error = ""
                 /\ users'[executions[s].req.userId].isActive = FALSE
                 /\ users'[executions[s].req.userId].isSuspended = TRUE)
          /\ (DeleteStartsOn(s)
              /\ executions'[s].req.requestingUserRole = "admin"
              /\ executions'[s].req.requestingUserId = executions'[s].req.userId)
             => (/\ executions'[s].pc = "done"
                 /\ executions'[s].error = AdminSelfDelete
                 /\ users' = users)]_vars

\* C4 witness: a user has deleted their own account, which is now inactive
\* and suspended, and an admin's deletion of their own account was refused.
C4_Witness ==
    \E s, t \in Slots :
        /\ executions[s].op = "DeleteUser"
        /\ executions[s].pc = "done"
        /\ executions[s].error = ""
        /\ executions[s].req.requestingUserRole = "user"
        /\ executions[s].req.requestingUserId = executions[s].req.userId
        /\ ~users[executions[s].req.userId].isActive
        /\ users[executions[s].req.userId].isSuspended
        /\ executions[t].op = "DeleteUser"
        /\ executions[t].req.requestingUserRole = "admin"
        /\ executions[t].req.requestingUserId = executions[t].req.userId
        /\ executions[t].error = AdminSelfDelete

(***************************************************************************)
(* C5                                                                      *)
(***************************************************************************)
\* C5: deletion is soft. When DeleteUser answers without error the target is
\* still stored, inactive, suspended with reason 'Account deleted by user';
\* and no step of any use case removes an id from the store.
C5_SoftDelete ==
    [][/\ DOMAIN users \subseteq DOMAIN users'
       /\ \A s \in Slots :
             (DeleteAnswers(s) /\ executions'[s].error = "")
             => (/\ executions[s].req.userId \in DOMAIN users'
                 /\ users'[executions[s].req.userId].isActive = FALSE
                 /\ users'[executions[s].req.userId].isSuspended = TRUE
                 /\ users'[executions[s].req.userId].suspendedReason = DeletedReason)]_vars

\* C5 witness: a DeleteUser has answered without error and findById still
\* returns the target, deactivated and suspended with the deletion reason.
C5_Witness ==
    \E s \in Slots :
        /\ executions[s].op = "DeleteUser"
        /\ executions[s].pc = "done"
        /\ executions[s].error = ""
        /\ findById(executions[s].req.userId) # NoUser
        /\ ~findById(executions[s].req.userId).isActive
        /\ findById(executions[s].req.userId).suspendedReason = DeletedReason

(***************************************************************************)
(* C10                                                                     *)
(***************************************************************************)
GetUserRuns(s) == Starts(s) /\ executions'[s].op = "GetUser"

\* C10: GetUser returns the stored target exactly when the target is stored
\* and the requester is admin, or is the target, or the target's
\* profileVisibility is not 'private'; any other requester of a stored
\* private target gets 'This profile is private'; the store is unchanged.
C10_GetUserAccess ==
    [][\A s \in Slots :
          GetUserRuns(s)
          => LET req == executions'[s].req
                 stored == req.userId \in DOMAIN users
                 allowed ==
                     \/ req.requestingUserRole = "admin"
                     \/ req.requestingUserId = req.userId
                     \/ users[req.userId].preferences.privacy.profileVisibility # "private"
             IN  /\ executions'[s].pc = "done"
                 /\ users' = users
                 /\ (executions'[s].error = "") <=> (stored /\ allowed)
                 /\ (stored /\ allowed) => executions'[s].result = users[req.userId]
                 /\ (stored /\ ~allowed) => executions'[s].error = ProfileIsPrivate]_vars

\* C10 witness: a requester who is neither admin nor the owner was refused a
\* private profile, and the owner of that private profile has read it.
C10_Witness ==
    \E s, t \in Slots :
        /\ executions[s].op = "GetUser"
        /\ Unauthorized(executions[s].req)
        /\ executions[s].error = ProfileIsPrivate
        /\ executions[t].op = "GetUser"
        /\ executions[t].req.userId = executions[s].req.userId
        /\ executions[t].req.requestingUserId = executions[t].req.userId
        /\ executions[t].req.requestingUserRole = "user"
        /\ executions[t].error = ""
        /\ executions[t].result.preferences.privacy.profileVisibility = "private"

(***************************************************************************)
(* Logins on one stored account, whatever its flags                        *)
(***************************************************************************)
EmailBUpper == <<"B", "@", "b", ".", "c">>
EmailMalformed == <<"b", ".", "c">>

\* the account of EmailB with every combination of the three flags, with and
\* without a password hash
LoginAccounts ==
    {Account(2, UsernameBob, EmailB, "user", hash, isActive, isSuspended, emailVerified, "public") :
        hash \in {hashPassword(PasswordOne), ""},
        isActive \in BOOLEAN, isSuspended \in BOOLEAN, emailVerified \in BOOLEAN}

LoginRequestsWide ==
    [email : {EmailB, EmailBUpper, EmailC}, password : {PasswordOne, PasswordTwo}]
    \cup {[email |-> EmailMalformed, password |-> PasswordOne],
          [email |-> EmailB, password |-> ""]}

InitLogin ==
    /\ \E account \in LoginAccounts : users = (2 :> account)
    /\ executions = [s \in Slots |-> Idle]

NextLogin ==
    \/ \E req \in LoginRequestsWide : LoginUserFind(req)
    \/ \E s \in Slots : LoginUserUpdate(s)

SpecLogin == InitLogin /\ [][NextLogin]_vars

\* the stored accounts that have the email a login request gives
AccountsOf(req) == {i \in DOMAIN users : users[i].email = EmailValue(req.email)}

\* a login with the email of a stored account and a password that is not its password
WrongPasswordLogin(s) ==
    /\ executions[s].op = "LoginUser"
    /\ executions[s].req.password # ""
    /\ \E i \in AccountsOf(executions[s].req) :
          ~comparePassword(executions[s].req.password, users[i].passwordHash)

\* a login with a well-formed email that no stored account has
UnknownEmailLogin(t) ==
    /\ executions[t].op = "LoginUser"
    /\ executions[t].req.password # ""
    /\ EmailIsValid(executions[t].req.email)
    /\ AccountsOf(executions[t].req) = {}

(***************************************************************************)
(* C1                                                                      *)
(***************************************************************************)
\* C1, as claimed: for every stored account, a login with its email and a
\* wrong password fails with the same error as a login with an email of no
\* account.
C1_SameErrorForEveryAccount ==
    \A s, t \in Slots :
        (WrongPasswordLogin(s) /\ UnknownEmailLogin(t))
        => (/\ executions[s].pc = "done"
            /\ executions[t].pc = "done"
            /\ executions[s].error # ""
            /\ executions[s].error = executions[t].error)

\* C1, amended: for every stored account that is active, not suspended,
\* email-verified and has a password hash, a login with its email and a wrong
\* password fails with the same error as a login with an email of no account.
C1_SameErrorWhenLoginAllowed ==
    \A s, t \in Slots :
        (/\ WrongPasswordLogin(s)
         /\ \A i \in AccountsOf(executions[s].req) :
               /\ users[i].isActive
               /\ ~users[i].isSuspended
               /\ users[i].emailVerified
               /\ users[i].passwordHash # ""
         /\ UnknownEmailLogin(t))
        => (/\ executions[s].pc = "done"
            /\ executions[t].pc = "done"
            /\ executions[s].error # ""
            /\ executions[s].error = executions[t].error)

\* C1 witness: a wrong-password login on an account that may log in and a
\* login with an unknown email have both answered, with one and the same error.
C1_Witness ==
    \E s, t \in Slots :
        /\ WrongPasswordLogin(s)
        /\ \A i \in AccountsOf(executions[s].req) :
              canLogin(users[i]) /\ users[i].passwordHash # ""
        /\ UnknownEmailLogin(t)
        /\ executions[s].error = "Invalid email or password"
        /\ executions[t].error = "Invalid email or password"

(***************************************************************************)
(* C2                                                                      *)
(***************************************************************************)
\* C2: canLogin is true for (isActive, isSuspended, emailVerified) =
\* (true, false, true) and false for the seven other combinations; a login
\* that found the account gets past the canLogin gate in exactly that case.
C2_CanLoginTruthTable ==
    /\ \A i \in DOMAIN users :
          canLogin(users[i])
          = (<<users[i].isActive, users[i].isSuspended, users[i].emailVerified>>
             = <<TRUE, FALSE, TRUE>>)
    /\ \A s \in Slots :
          (executions[s].op = "LoginUser" /\ executions[s].user # NoUser)
          => ((executions[s].error
                  \in {"", WrongPasswordMessage, "Password not set for this account"})
              <=> (<<executions[s].user.isActive, executions[s].user.isSuspended,
                     executions[s].user.emailVerified>> = <<TRUE, FALSE, TRUE>>))

\* C2 witness: a login on an account that is active and not suspended but not
\* email-verified has found the account and was stopped at the canLogin gate.
C2_Witness ==
    \E s \in Slots :
        /\ executions[s].op = "LoginUser"
        /\ executions[s].user # NoUser
        /\ executions[s].user.isActive
        /\ ~executions[s].user.isSuspended
        /\ ~executions[s].user.emailVerified
        /\ executions[s].error = "Cannot login: email is not verified"

(***************************************************************************)
(* Registrations on a seeded store                                         *)
(***************************************************************************)
UsernameShort == <<"a", "b">>
PasswordShort == "short"

RegisterRequests ==
    [email : {EmailA, EmailB, EmailBUpper, EmailC},
     username : {UsernameAnn, UsernameBob, UsernameCat},
     password : {PasswordOne}, firstName : {"F"}, lastName : {"L"}]
    \cup {[email |-> EmailMalformed, username |-> UsernameCat, password |-> PasswordOne,
           firstName |-> "F", lastName |-> "L"],
          [email |-> EmailC, username |-> UsernameShort, password |-> PasswordOne,
           firstName |-> "F", lastName |-> "L"],
          [email |-> EmailC, username |-> UsernameCat, password |-> PasswordShort,
           firstName |-> "F", lastName |-> "L"]}

\* the store holds the administrator, or the administrator and one user
InitRegister ==
    /\ users \in {(1 :> Admin1), (1 :> Admin1) @@ (2 :> User2("public"))}
    /\ executions = [s \in Slots |-> Idle]

NextRegister ==
    \/ \E req \in RegisterRequests : CreateUserExists(req)
    \/ \E s \in Slots : CreateUserSave(s)

SpecRegister == InitRegister /\ [][NextRegister]_vars

\* a CreateUser whose email, username and password pass the value objects starts
RegistrationStarts(s) ==
    /\ Starts(s)
    /\ executions'[s].op = "CreateUser"
    /\ EmailIsValid(executions'[s].req.email)
    /\ UsernameIsValid(executions'[s].req.username)
    /\ PasswordIsValid(executions'[s].req.password)

EmailTaken(req) == \E i \in DOMAIN users : users[i].email = EmailValue(req.email)

UsernameTaken(req) == \E i \in DOMAIN users : users[i].username = UsernameValue(req.username)

\* userRepository.create of the execution in slot s answers
RegistrationSaves(s) ==
    /\ executions[s].op = "CreateUser"
    /\ executions[s].pc = "create"
    /\ executions'[s].pc = "done"

(***************************************************************************)
(* C6                                                                      *)
(***************************************************************************)
\* C6, as claimed: a registration whose email is the email of some stored
\* user, or whose username is the username of some stored user (the same
\* user or another), fails at the existence check, and the failure names
\* exactly the taken fields: both, only email, or only username.
C6_EveryTakenFieldNamed ==
    [][\A s \in Slots :
          (RegistrationStarts(s)
           /\ (EmailTaken(executions'[s].req) \/ UsernameTaken(executions'[s].req)))
          => (/\ executions'[s].pc = "done"
              /\ executions'[s].error =
                    Join(ExistsConflictMessages(
                        [email |-> EmailTaken(executions'[s].req),
                         username |-> UsernameTaken(executions'[s].req)])))]_vars

(***************************************************************************)
(* C7                                                                      *)
(***************************************************************************)
UniqueEmailAndUsername(store) ==
    \A i, j \in DOMAIN store :
        i # j => (store[i].email # store[j].email /\ store[i].username # store[j].username)

\* C7: after every step of every interleaving of CreateUser executions no
\* two stored users have the same normalized email or the same username; a
\* save whose email or username a stored user already has fails and leaves
\* the store as it was, and every other save adds exactly its own record.
C7_UniqueUnderConcurrentCreate ==
    [][/\ UniqueEmailAndUsername(users')
       /\ \A s \in Slots :
             RegistrationSaves(s)
             => IF \E i \in DOMAIN users :
                       \/ users[i].email = executions[s].user.email
                       \/ users[i].username = executions[s].user.username
                THEN executions'[s].error # "" /\ users' = users
                ELSE /\ executions'[s].error = ""
                     /\ Cardinality(DOMAIN users') = Cardinality(DOMAIN users) + 1
                     /\ \A i \in DOMAIN users : users'[i] = users[i]]_vars

\* C7 witness: two registrations with the same normalized email both passed
\* the existence check; one was saved and the other was refused at the save.
C7_Witness ==
    \E s, t \in Slots :
        /\ s # t
        /\ executions[s].op = "CreateUser"
        /\ executions[t].op = "CreateUser"
        /\ executions[s].pc = "done"
        /\ executions[t].pc = "done"
        /\ executions[s].error = ""
        /\ executions[t].error = "email already exists"
        /\ EmailValue(executions[s].req.email) = EmailValue(executions[t].req.email)
        /\ executions[s].result.id \in DOMAIN users
        /\ Cardinality({i \in DOMAIN users : users[i].email = EmailValue(executions[t].req.email)}) = 1

(***************************************************************************)
(* Social accounts on a seeded store                                       *)
(***************************************************************************)
Providers == {"google", "github"}
ProviderIds == {"p1", "p2"}

\* the administrator on their own account, the user on their own account,
\* the administrator on the user's, the user on the administrator's, and a
\* user whose id no stored account has
LinkRequesters ==
    {[userId |-> 1, requestingUserId |-> 1, requestingUserRole |-> "admin"],
     [userId |-> 2, requestingUserId |-> 2, requestingUserRole |-> "user"],
     [userId |-> 2, requestingUserId |-> 1, requestingUserRole |-> "admin"],
     [userId |-> 1, requestingUserId |-> 2, requestingUserRole |-> "user"],
     [userId |-> 3, requestingUserId |-> 3, requestingUserRole |-> "user"]}

LinkRequestsWide ==
    {With(With(r, "provider", provider), "providerId", providerId) :
        r \in LinkRequesters, provider \in Providers, providerId \in ProviderIds}

\* the user has linked no account yet, or one google account
InitLink ==
    /\ \E linked \in {<<>>, <<[provider |-> "google", providerId |-> "p1", isActive |-> TRUE]>>} :
          users = (1 :> Admin1) @@ (2 :> [User2("public") EXCEPT !.socialAccounts = linked])
    /\ executions = [s \in Slots |-> Idle]

NextLink ==
    \/ \E req \in LinkRequestsWide : LinkSocialAccountFind(req)
    \/ \E s \in Slots : LinkSocialAccountCheck(s)
    \/ \E s \in Slots : LinkSocialAccountSave(s)

SpecLink == InitLink /\ [][NextLink]_vars

\* user i holds an active social account with this provider and providerId
Holds(store, i, provider, providerId) ==
    \E a \in 1..Len(store[i].socialAccounts) :
        /\ store[i].socialAccounts[a].provider = provider
        /\ store[i].socialAccounts[a].providerId = providerId
        /\ store[i].socialAccounts[a].isActive

\* the execution in slot s, past authorization and findById, does its lookup
LinkLooksUp(s) ==
    /\ executions[s].op = "LinkSocialAccount"
    /\ executions[s].pc = "check"
    /\ executions'[s].pc # "check"

(***************************************************************************)
(* C8                                                                      *)
(***************************************************************************)
\* C8, as claimed: LinkSocialAccount by an authorized requester on a stored
\* target fails with the conflict error naming the provider if and only if
\* a user other than the target holds a social account with that provider
\* and that providerId; otherwise it goes on to link the account, and when
\* it answers the target holds an active account with that provider and
\* providerId.
C8_ConflictIffHeldByAnother ==
    [][\A s \in Slots :
          /\ LinkLooksUp(s)
             => ((/\ executions'[s].pc = "done"
                  /\ executions'[s].error = AlreadyLinked(executions[s].req.provider))
                 <=> (\E i \in DOMAIN users \ {executions[s].req.userId} :
                         Holds(users, i, executions[s].req.provider, executions[s].req.providerId)))
          /\ LinkLooksUp(s)
             => (executions'[s].pc = "done" \/ executions'[s].pc = "update")
          /\ (/\ executions[s].op = "LinkSocialAccount"
              /\ executions[s].pc = "update"
              /\ executions'[s].pc = "done")
             => (/\ executions'[s].error = ""
                 /\ Holds(users', executions[s].req.userId,
                          executions[s].req.provider, executions[s].req.providerId))]_vars

(***************************************************************************)
(* C9                                                                      *)
(***************************************************************************)
\* C9, as claimed: in every reachable state no provider and providerId are
\* held as an active social account by two different users.
C9_PairHeldByOneUser ==
    \A i, j \in DOMAIN users :
        \A provider \in Providers, providerId \in ProviderIds :
            (Holds(users, i, provider, providerId) /\ Holds(users, j, provider, providerId))
            => i = j

(***************************************************************************)
(* ListUsers and SearchUsers                                               *)
(***************************************************************************)
ListForbidden == "Only administrators can view all users"
QueryTooShort == "Search query must be at least 2 characters long"

DefaultPageLimit == 20
MaxPageLimit == 100
MaxSearchLimit == 50
MinQueryLength == 2

\* mutant: no cap
MinUncapped(a, b) == a

\* Math.min
Min(a, b) == IF a < b THEN a ELSE b

\* options?.field || fallback: a missing field and the number 0 both give the fallback
OrDefault(req, field, fallback) ==
    IF "options" \in DOMAIN req /\ field \in DOMAIN req.options /\ req.options[field] # 0
    THEN req.options[field]
    ELSE fallback

\* an execution suspended at an await of a read, holding the arguments of the call
Calling(op, pc, req, call) ==
    [op |-> op, pc |-> pc, req |-> req, user |-> NoUser, error |-> "", result |-> NoUser,
     call |-> call]

\* a finished read: the arguments it gave the persistence port and its answer
Answered(op, req, error, call, result) ==
    [op |-> op, pc |-> "done", req |-> req, user |-> NoUser, error |-> error, result |-> result,
     call |-> call]

\* the ids of a set in descending order: the newest document first
RECURSIVE Descending(_)
Descending(ids) ==
    IF ids = {} THEN <<>>
    ELSE LET top == CHOOSE i \in ids : \A j \in ids : j <= i
         IN  <<top>> \o Descending(ids \ {top})

\* .skip(skip).limit(limit) on a sequence
SkipLimit(seq, skip, limit) ==
    SubSeq(seq, skip + 1, Min(Len(seq), skip + limit))

\* mutant: the role is not looked at
ListAllowedForAll(req) == TRUE

\* the authorization check of ListUsers.execute
ListAllowed(req) == req.requestingUserRole = "admin"

\* the authorization check and the query options, up to the await of findAll
ListUsersStart(req) ==
    /\ HasFreeSlot
    /\ IF ~ListAllowed(req)
       THEN Throw("ListUsers", req, ListForbidden, NoUser)
       ELSE /\ executions' = [executions EXCEPT ![FreeSlot] =
                   Calling("ListUsers", "findAll", req,
                       [filters |-> IF "filters" \in DOMAIN req THEN req.filters ELSE << >>,
                        options |->
                            [page |-> OrDefault(req, "page", 1),
                             limit |-> Min(OrDefault(req, "limit", DefaultPageLimit), MaxPageLimit),
                             sortBy |-> "createdAt",
                             sortOrder |-> "desc"]])]
            /\ UNCHANGED users

\* buildQuery: the documents the filters select; an absent filter selects all
buildQuery(filters) ==
    {i \in StoredIds :
        /\ ("isActive" \in DOMAIN filters => users[i].isActive = filters.isActive)
        /\ ("emailVerified" \in DOMAIN filters => users[i].emailVerified = filters.emailVerified)
        /\ ("role" \in DOMAIN filters => users[i].role = filters.role)
        /\ ("isSuspended" \in DOMAIN filters => users[i].isSuspended = filters.isSuspended)}

\* a default read leaves out the fields the schema marks select: false
WithoutPasswordHash(userDoc) == [f \in (DOMAIN userDoc) \ {"passwordHash"} |-> userDoc[f]]

\* userRepository.findAll: find, sort, skip, limit and countDocuments
ListUsersFindAll(s) ==
    /\ executions[s].op = "ListUsers"
    /\ executions[s].pc = "findAll"
    /\ UNCHANGED users
    /\ LET call == executions[s].call
           matching == Descending(buildQuery(call.filters))
           page == SkipLimit(matching, (call.options.page - 1) * call.options.limit,
                             call.options.limit)
       IN  executions' = [executions EXCEPT ![s] =
               Answered("ListUsers", executions[s].req, "", call,
                   [data |-> [k \in 1..Len(page) |-> WithoutPasswordHash(users[page[k]])],
                    pagination |-> [page |-> call.options.page,
                                    limit |-> call.options.limit,
                                    total |-> Len(matching)]])]

\* mutant: includeInactive is passed on as the request gave it
SearchOptionsAsAsked(req) ==
    [page |-> 1,
     limit |-> Min(OrDefault(req, "limit", DefaultPageLimit), MaxSearchLimit),
     skip |-> OrDefault(req, "skip", 0),
     includeInactive |-> "options" \in DOMAIN req /\ "includeInactive" \in DOMAIN req.options
                         /\ req.options.includeInactive]

\* requestingUserRole === 'admin' && options?.includeInactive: false for a
\* requester who is not admin, else what the request gave, if anything
SearchOptionsOf(req) ==
    LET paging == [page |-> 1,
                   limit |-> Min(OrDefault(req, "limit", DefaultPageLimit), MaxSearchLimit),
                   skip |-> OrDefault(req, "skip", 0)]
    IN  IF req.requestingUserRole # "admin"
        THEN paging @@ [includeInactive |-> FALSE]
        ELSE IF "options" \in DOMAIN req /\ "includeInactive" \in DOMAIN req.options
        THEN paging @@ [includeInactive |-> req.options.includeInactive]
        ELSE paging

\* the validation and the search options, up to the await of search
SearchUsersStart(req) ==
    /\ HasFreeSlot
    /\ IF Len(Trim(req.query)) < MinQueryLength
       THEN Throw("SearchUsers", req, QueryTooShort, NoUser)
       ELSE /\ executions' = [executions EXCEPT ![FreeSlot] =
                   Calling("SearchUsers", "search", req,
                       [query |-> Trim(req.query), options |-> SearchOptionsOf(req)])]
            /\ UNCHANGED users

\* $text on the index over username and the names of the profile: a term
\* matches a whole word, whatever its case
TextMatches(userDoc, query) ==
    \/ ToLowerCase(query) = ToLowerCase(userDoc.username)
    \/ /\ Len(query) = 1
       /\ LowerChar(query[1]) \in {LowerChar(userDoc.profile.firstName),
                                   LowerChar(userDoc.profile.lastName)}

\* the fields the search projection names, and _id
SearchSelect == {"id", "username", "profile", "emailVerified", "role"}

\* .select(fields): the document with the named fields only
Select(userDoc, fields) == [f \in (DOMAIN userDoc) \cap fields |-> userDoc[f]]

\* String(undefined), which RegExp.test makes of a missing field
UndefinedAsString == <<"u", "n", "d", "e", "f", "i", "n", "e", "d">>

\* toDomainEntity: the message of the value object that throws, "" if none does
toDomainEntity(userDoc) ==
    IF ~UsernameIsValid(IF "username" \in DOMAIN userDoc THEN userDoc.username
                        ELSE UndefinedAsString)
    THEN "Invalid username format"
    ELSE IF ~EmailIsValid(IF "email" \in DOMAIN userDoc THEN userDoc.email
                          ELSE UndefinedAsString)
    THEN "Invalid email format"
    ELSE ""

\* the documents the search criteria select
SearchCriteria(call) ==
    {i \in StoredIds :
        /\ TextMatches(users[i], call.query)
        /\ (("includeInactive" \in DOMAIN call.options /\ call.options.includeInactive)
            \/ users[i].isActive)}

\* userRepository.search: find, select, limit, skip, and toDomainEntity on
\* every document found
SearchUsersSearch(s) ==
    /\ executions[s].op = "SearchUsers"
    /\ executions[s].pc = "search"
    /\ UNCHANGED users
    /\ LET call == executions[s].call
           found == SkipLimit(Descending(SearchCriteria(call)), call.options.skip,
                              call.options.limit)
           docs == [k \in 1..Len(found) |-> Select(users[found[k]], SearchSelect)]
           failed == {k \in 1..Len(docs) : toDomainEntity(docs[k]) # ""}
       IN  IF failed # {}
           THEN executions' = [executions EXCEPT ![s] =
                    Answered("SearchUsers", executions[s].req,
                        "Error searching users: Error: "
                            \o toDomainEntity(docs[CHOOSE k \in failed : \A j \in failed : k <= j]),
                        call, <<>>)]
           ELSE executions' = [executions EXCEPT ![s] =
                    Answered("SearchUsers", executions[s].req, "", call, docs)]

(***************************************************************************)
(* Reads on a seeded store                                                 *)
(***************************************************************************)
RequesterRoles == {"admin", "user", "moderator", ""}

ListRequests ==
    {[requestingUserRole |-> role] : role \in RequesterRoles}
    \cup {[requestingUserRole |-> role, filters |-> filters, options |-> options] :
            role \in {"admin", "user"},
            filters \in {[isActive |-> TRUE], [role |-> "user", isSuspended |-> FALSE]},
            options \in {[page |-> 2, limit |-> 1], [page |-> 0, limit |-> 200]}}

QueryBobPadded == <<" ", "B", "o", "b", " ">>
QueryOneLetter == <<" ", "b", " ">>

SearchRequests ==
    {[query |-> query, requestingUserRole |-> "admin"] :
        query \in {UsernameBob, QueryBobPadded, UsernameCat, QueryOneLetter, <<>>}}
    \cup {[query |-> UsernameBob, requestingUserRole |-> "user"]}
    \cup {[query |-> UsernameBob, requestingUserRole |-> role, options |-> options] :
            role \in {"admin", "user", "moderator"},
            options \in {[includeInactive |-> TRUE, limit |-> 200],
                         [includeInactive |-> FALSE, limit |-> 0]}}

\* the administrator and a user who is active or deactivated
InitRead ==
    /\ \E isActive \in BOOLEAN :
          users = (1 :> Admin1)
                  @@ (2 :> Account(2, UsernameBob, EmailB, "user", hashPassword(PasswordOne),
                                   isActive, ~isActive, TRUE, "public"))
    /\ executions = [s \in Slots |-> Idle]

NextRead ==
    \/ \E req \in ListRequests : ListUsersStart(req)
    \/ \E s \in Slots : ListUsersFindAll(s)
    \/ \E req \in SearchRequests : SearchUsersStart(req)
    \/ \E s \in Slots : SearchUsersSearch(s)

SpecRead == InitRead /\ [][NextRead]_vars

(***************************************************************************)
(* C11                                                                     *)
(***************************************************************************)
\* C11: ListUsers asked with a role other than admin fails in its first
\* step with 'Only administrators can view all users', whatever filters and
\* options the request carries, and never reaches the call of findAll.
C11_ListUsersAdminOnly ==
    /\ \A s \in Slots :
          (executions[s].op = "ListUsers" /\ executions[s].req.requestingUserRole # "admin")
          => (/\ executions[s].pc = "done"
              /\ executions[s].error = ListForbidden
              /\ "call" \notin DOMAIN executions[s])

\* C11 witness: a ListUsers with filters and options asked by a user was
\* refused, and one asked by an admin has called findAll and got a page.
C11_Witness ==
    \E s, t \in Slots :
        /\ executions[s].op = "ListUsers"
        /\ executions[s].req.requestingUserRole = "user"
        /\ "filters" \in DOMAIN executions[s].req
        /\ executions[s].error = ListForbidden
        /\ executions[t].op = "ListUsers"
        /\ executions[t].req.requestingUserRole = "admin"
        /\ executions[t].pc = "done"
        /\ executions[t].error = ""
        /\ Len(executions[t].result.data) > 0

(***************************************************************************)
(* C12                                                                     *)
(***************************************************************************)
\* the request asked for includeInactive = true
AskedIncludeInactive(req) ==
    "options" \in DOMAIN req /\ "includeInactive" \in DOMAIN req.options
    /\ req.options.includeInactive

\* the options given to userRepository.search have includeInactive = true
PassedIncludeInactive(call) ==
    "includeInactive" \in DOMAIN call.options /\ call.options.includeInactive

\* C12: a SearchUsers with a query of trimmed length at least 2 reaches the
\* call of search; the includeInactive it passes is true only if the
\* requester is admin and the request asked for true, and for a requester
\* who is not admin it is false.
C12_IncludeInactiveAdminOnly ==
    \A s \in Slots :
        (executions[s].op = "SearchUsers"
         /\ Len(Trim(executions[s].req.query)) >= MinQueryLength)
        => (/\ "call" \in DOMAIN executions[s]
            /\ executions[s].error # QueryTooShort
            /\ PassedIncludeInactive(executions[s].call)
               => (executions[s].req.requestingUserRole = "admin"
                   /\ AskedIncludeInactive(executions[s].req))
            /\ executions[s].req.requestingUserRole # "admin"
               => (/\ "includeInactive" \in DOMAIN executions[s].call.options
                   /\ executions[s].call.options.includeInactive = FALSE))

\* C12 witness: a user who asked for includeInactive = true had false passed
\* to search, and an admin who asked for it had true passed.
C12_Witness ==
    \E s, t \in Slots :
        /\ executions[s].op = "SearchUsers"
        /\ executions[s].req.requestingUserRole = "user"
        /\ AskedIncludeInactive(executions[s].req)
        /\ "call" \in DOMAIN executions[s]
        /\ ~PassedIncludeInactive(executions[s].call)
        /\ executions[t].op = "SearchUsers"
        /\ executions[t].req.requestingUserRole = "admin"
        /\ AskedIncludeInactive(executions[t].req)
        /\ "call" \in DOMAIN executions[t]
        /\ PassedIncludeInactive(executions[t].call)

(***************************************************************************)
(* C13                                                                     *)
(***************************************************************************)
\* C13, as claimed: a search with a query of trimmed length at least 2 that
\* has answered has answered without error, and with the stored users that
\* match the query (the active ones, unless includeInactive was passed).
C13_SearchSucceeds ==
    \A s \in Slots :
        (executions[s].op = "SearchUsers"
         /\ executions[s].pc = "done"
         /\ Len(Trim(executions[s].req.query)) >= MinQueryLength)
        => (/\ executions[s].error = ""
            /\ {executions[s].result[k].id : k \in 1..Len(executions[s].result)}
               = SearchCriteria(executions[s].call))

(***************************************************************************)
(* C14                                                                     *)
(***************************************************************************)
\* the one message that names exactly the failing conditions of the flags
CannotLoginMessage(isActive, isSuspended, emailVerified) ==
    CASE <<isActive, isSuspended, emailVerified>> = <<FALSE, FALSE, TRUE>> ->
            "Cannot login: account is inactive"
      [] <<isActive, isSuspended, emailVerified>> = <<TRUE, TRUE, TRUE>> ->
            "Cannot login: account is suspended"
      [] <<isActive, isSuspended, emailVerified>> = <<TRUE, FALSE, FALSE>> ->
            "Cannot login: email is not verified"
      [] <<isActive, isSuspended, emailVerified>> = <<FALSE, TRUE, TRUE>> ->
            "Cannot login: account is inactive, account is suspended"
      [] <<isActive, isSuspended, emailVerified>> = <<FALSE, FALSE, FALSE>> ->
            "Cannot login: account is inactive, email is not verified"
      [] <<isActive, isSuspended, emailVerified>> = <<TRUE, TRUE, FALSE>> ->
            "Cannot login: account is suspended, email is not verified"
      [] <<isActive, isSuspended, emailVerified>> = <<FALSE, TRUE, FALSE>> ->
            "Cannot login: account is inactive, account is suspended, email is not verified"

\* C14: a LoginUser that found an account whose flags are not (active, not
\* suspended, verified) has failed with the one message that mentions
\* 'inactive' iff isActive is false, 'suspended' iff isSuspended is true and
\* 'not verified' iff emailVerified is false.
C14_CannotLoginListsReasons ==
    \A s \in Slots :
        (/\ executions[s].op = "LoginUser"
         /\ executions[s].user # NoUser
         /\ <<executions[s].user.isActive, executions[s].user.isSuspended,
              executions[s].user.emailVerified>> # <<TRUE, FALSE, TRUE>>)
        => (/\ executions[s].pc = "done"
            /\ executions[s].error =
                  CannotLoginMessage(executions[s].user.isActive, executions[s].user.isSuspended,
                                     executions[s].user.emailVerified))

\* C14 witness: a login on an account that is inactive, suspended and not
\* verified was refused with the message that lists the three conditions.
C14_Witness ==
    \E s \in Slots :
        /\ executions[s].op = "LoginUser"
        /\ executions[s].user # NoUser
        /\ ~executions[s].user.isActive
        /\ executions[s].user.isSuspended
        /\ ~executions[s].user.emailVerified
        /\ executions[s].error
           = "Cannot login: account is inactive, account is suspended, email is not verified"

(***************************************************************************)
(* C15                                                                     *)
(***************************************************************************)
\* C15: when CreateUser answers without error, the account it returns and
\* the record it stored are active, not suspended, not email-verified, with
\* loginCount 0 and no addresses and no social accounts, and the response
\* has requiresEmailVerification = true.
C15_NewAccountState ==
    [][\A s \in Slots :
          (RegistrationSaves(s) /\ executions'[s].error = "")
          => (/\ executions'[s].result.id \in (DOMAIN users') \ (DOMAIN users)
              /\ users'[executions'[s].result.id] = executions'[s].result
              /\ executions'[s].result.isActive = TRUE
              /\ executions'[s].result.isSuspended = FALSE
              /\ executions'[s].result.emailVerified = FALSE
              /\ executions'[s].result.loginCount = 0
              /\ executions'[s].result.addresses = <<>>
              /\ executions'[s].result.socialAccounts = <<>>
              /\ executions'[s].requiresEmailVerification = TRUE)]_vars

\* C15 witness: a CreateUser has answered without error and the account it
\* created is stored, active and not yet verified.
C15_Witness ==
    \E s \in Slots :
        /\ executions[s].op = "CreateUser"
        /\ executions[s].pc = "done"
        /\ executions[s].error = ""
        /\ executions[s].requiresEmailVerification
        /\ executions[s].result.id \in DOMAIN users
        /\ users[executions[s].result.id].isActive
        /\ ~users[executions[s].result.id].emailVerified
        /\ users[executions[s].result.id].loginCount = 0

(***************************************************************************)
(* HTTP: errorHandler, UserPresenter and the bodies UserController sends   *)
(***************************************************************************)
\* what stands before and after 'already exists', 'already registered',
\* 'not found', 'Invalid', 'required', 'Unauthorized', 'Invalid email or
\* password', 'cannot', 'not allowed' and 'admin' in the messages the use
\* cases and the repository throw
MessageContexts ==
    {<<"", "">>,
     <<"", " email format">>,
     <<"", " email or password">>,
     <<"", " username format">>,
     <<"Administrators ", " delete their own account">>,
     <<"Email ", "">>,
     <<"Email ", ", Username already taken">>,
     <<"Email and password are ", "">>,
     <<"Error searching users: Error: ", " email format">>,
     <<"Error searching users: Error: ", " username format">>,
     <<"Error updating user: Error: User ", "">>,
     <<"Only ", "istrators can view all users">>,
     <<"User ", "">>,
     <<"You can only delete your own account or you must be an ", "">>,
     <<"You can only update your own profile or you must be an ", "">>,
     <<"email ", "">>,
     <<"username ", "">>}

\* String.prototype.includes, case-sensitive: message = before + part + after
Includes(message, part) ==
    \E context \in MessageContexts : message = context[1] \o part \o context[2]

\* errorHandler: the status and the code of the answer to a thrown Error
errorHandler(message) ==
    IF Includes(message, "already exists") \/ Includes(message, "already registered")
    THEN [statusCode |-> 409, errorCode |-> "CONFLICT"]
    ELSE IF Includes(message, "not found")
    THEN [statusCode |-> 404, errorCode |-> "NOT_FOUND"]
    ELSE IF Includes(message, "Invalid") \/ Includes(message, "required")
    THEN [statusCode |-> 400, errorCode |-> "VALIDATION_ERROR"]
    ELSE IF Includes(message, "Unauthorized") \/ Includes(message, "Invalid email or password")
    THEN [statusCode |-> 401, errorCode |-> "UNAUTHORIZED"]
    ELSE IF Includes(message, "cannot") \/ Includes(message, "not allowed")
            \/ Includes(message, "admin")
    THEN [statusCode |-> 403, errorCode |-> "FORBIDDEN"]
    ELSE [statusCode |-> 500, errorCode |-> "INTERNAL_ERROR"]

\* the message of the error body: err.message, or a fixed text in production
ErrorBodyMessages(message) == {message, "Internal server error"}

UserResponseFields ==
    {"id", "username", "email", "role", "profile", "emailVerified", "isActive", "isSuspended",
     "preferences", "loginCount"}

\* mutant: the aggregate is sent as it is
presentUserWhole(user) == user

\* toUserResponseDto
presentUser(user) == [f \in UserResponseFields |-> user[f]]

\* presentSearchResults: one entry per user, with more fields for an admin
presentSearchResults(found, requestingUserRole) ==
    [k \in 1..Len(found) |->
        LET baseData == [id |-> found[k].id,
                         username |-> found[k].username,
                         profile |-> [firstName |-> found[k].profile.firstName,
                                      lastName |-> found[k].profile.lastName],
                         emailVerified |-> found[k].emailVerified]
        IN  IF requestingUserRole = "admin"
            THEN baseData @@ [email |-> found[k].email, role |-> found[k].role,
                              isActive |-> found[k].isActive]
            ELSE baseData]

\* the payload LoginUser signs into the tokens
TokenPayload(user) == [userId |-> user.id, email |-> user.email, role |-> user.role]

\* the data of the success body UserController sends for a finished execution
ResponseData(execution) ==
    CASE execution.op = "LoginUser" ->
            [user |-> presentUser(execution.result), tokens |-> TokenPayload(execution.result)]
      [] execution.op = "DeleteUser" ->
            [message |-> "User account has been successfully deleted"]
      [] execution.op = "ListUsers" ->
            [users |-> [k \in 1..Len(execution.result.data) |->
                           presentUser(execution.result.data[k])]]
      [] execution.op = "SearchUsers" ->
            [users |-> presentSearchResults(execution.result, execution.req.requestingUserRole)]
      [] OTHER -> [user |-> presentUser(execution.result)]

(***************************************************************************)
(* Every endpoint on a seeded store                                        *)
(***************************************************************************)
OnUser2 == {req \in OnUser : req.userId = 2}

ByUser2 == {req \in OnUser2 : req.requestingUserId = 2}

InitHttp ==
    /\ users = (1 :> Admin1) @@ (2 :> User2("public"))
    /\ executions = [s \in Slots |-> Idle]

NextHttp ==
    \/ \E req \in CreateRequests : CreateUserExists(req)
    \/ \E s \in Slots : CreateUserSave(s)
    \/ \E req \in LoginRequests : LoginUserFind(req)
    \/ \E s \in Slots : LoginUserUpdate(s)
    \/ \E req \in OnUser2 : GetUser(req)
    \/ \E req \in ByUser2 : UpdateUserFind(With(req, "preferences", PrivatePreferences))
    \/ \E s \in Slots : UpdateUserSave(s)
    \/ \E req \in ByUser2 : DeleteUserFind(req)
    \/ \E s \in Slots : DeleteUserSave(s)
    \/ \E req \in ByUser2 :
          LinkSocialAccountFind(With(With(req, "provider", "google"), "providerId", "p1"))
    \/ \E s \in Slots : LinkSocialAccountCheck(s)
    \/ \E s \in Slots : LinkSocialAccountSave(s)
    \/ \E role \in {"admin", "user"} : ListUsersStart([requestingUserRole |-> role])
    \/ \E s \in Slots : ListUsersFindAll(s)
    \/ \E req \in {[query |-> UsernameBob, requestingUserRole |-> "user"],
                   [query |-> UsernameCat, requestingUserRole |-> "admin"]} :
          SearchUsersStart(req)
    \/ \E s \in Slots : SearchUsersSearch(s)

SpecHttp == InitHttp /\ [][NextHttp]_vars

(***************************************************************************)
(* C16                                                                     *)
(***************************************************************************)
\* a presented record has no field for the password or its hash
WithoutCredential(presented) ==
    "passwordHash" \notin DOMAIN presented /\ "password" \notin DOMAIN presented

\* C16: the body sent for a finished execution of any endpoint has no
\* password hash and no password: each presented user, the login data and
\* the token payload have no such field, and an error body's message is
\* neither the password of the request nor its hash.
C16_NoCredentialInResponse ==
    \A s \in Slots :
        executions[s].pc = "done"
        => IF executions[s].error = ""
           THEN LET data == ResponseData(executions[s])
                IN  /\ WithoutCredential(data)
                    /\ "user" \in DOMAIN data => WithoutCredential(data.user)
                    /\ "tokens" \in DOMAIN data => WithoutCredential(data.tokens)
                    /\ "users" \in DOMAIN data
                       => \A k \in 1..Len(data.users) : WithoutCredential(data.users[k])
           ELSE "password" \in DOMAIN executions[s].req
                => ErrorBodyMessages(executions[s].error)
                   \cap {executions[s].req.password, hashPassword(executions[s].req.password)} = {}

\* C16 witness: a login has answered with the presented user, who is stored
\* with a password hash, and a list of users has been sent to an admin.
C16_Witness ==
    \E s, t \in Slots :
        /\ executions[s].op = "LoginUser"
        /\ executions[s].pc = "done"
        /\ executions[s].error = ""
        /\ users[executions[s].result.id].passwordHash # ""
        /\ ResponseData(executions[s]).user.email = executions[s].result.email
        /\ executions[t].op = "ListUsers"
        /\ executions[t].pc = "done"
        /\ executions[t].error = ""
        /\ Len(ResponseData(executions[t]).users) > 0

(***************************************************************************)
(* C17                                                                     *)
(***************************************************************************)
\* C17, as claimed: a login the use case rejects because the password is
\* wrong or because no account has the email is answered with status 401
\* and code UNAUTHORIZED.
C17_BadCredentialsUnauthorized ==
    \A s \in Slots :
        (/\ executions[s].op = "LoginUser"
         /\ executions[s].pc = "done"
         /\ executions[s].error \in {WrongPasswordMessage, UserNotFoundMessage})
        => errorHandler(executions[s].error)
           = [statusCode |-> 401, errorCode |-> "UNAUTHORIZED"]

(***************************************************************************)
(* C18                                                                     *)
(***************************************************************************)
\* the messages of a registration refused for a taken email or username: by
\* the existence check, or by a unique index at the save
TakenMessages ==
    {"Email already registered", "Username already taken",
     "Email already registered, Username already taken",
     "email already exists", "username already exists"}

\* C18, as claimed: a registration the use case rejects because the email,
\* the username or both are taken is answered with status 409 and code
\* CONFLICT, whichever field caused the rejection.
C18_TakenIsConflict ==
    \A s \in Slots :
        (/\ executions[s].op = "CreateUser"
         /\ executions[s].pc = "done"
         /\ executions[s].error \in TakenMessages)
        => errorHandler(executions[s].error) = [statusCode |-> 409, errorCode |-> "CONFLICT"]

(***************************************************************************)
(* Partial updates on a seeded store                                       *)
(***************************************************************************)
\* UpdateUserDtoSchema: every field of profile, of preferences and of the
\* nested notifications and privacy objects is optional
PartialProfiles == {[firstName |-> "G"], [lastName |-> "M"]}

PartialPreferences ==
    {[language |-> "vi"],
     [privacy |-> [showEmail |-> TRUE]],
     [notifications |-> [sms |-> TRUE]]}

\* the requests of the stored administrator and of the stored user on user 2,
\* with a partial profile, partial preferences, or both
PartialUpdateRequests ==
    {With(r, "profile", p) : r \in OnUser2 \ {q \in OnUser2 : q.requestingUserId = 3},
                             p \in PartialProfiles}
    \cup {With(r, "preferences", p) : r \in ByUser2, p \in PartialPreferences}
    \cup {With(With(r, "profile", p), "preferences", q) :
              r \in ByUser2, p \in PartialProfiles, q \in PartialPreferences}

InitUpdate ==
    /\ \E visibility \in Visibilities : users = (1 :> Admin1) @@ (2 :> User2(visibility))
    /\ executions = [s \in Slots |-> Idle]

NextUpdate ==
    \/ \E req \in PartialUpdateRequests : UpdateUserFind(req)
    \/ \E s \in Slots : UpdateUserSave(s)

SpecUpdate == InitUpdate /\ [][NextUpdate]_vars

\* the aggregate the contract asks for: each supplied field replaced, at the
\* top level and inside notifications and privacy, every other field kept
SuppliedOnly(before, req) ==
    LET profile ==
            IF "profile" \in DOMAIN req THEN Merge(before.profile, req.profile)
            ELSE before.profile
        supplied == IF "preferences" \in DOMAIN req THEN req.preferences ELSE <<>>
        preferences ==
            [k \in DOMAIN before.preferences |->
                IF k \notin DOMAIN supplied THEN before.preferences[k]
                ELSE IF k \in {"notifications", "privacy"}
                THEN Merge(before.preferences[k], supplied[k])
                ELSE supplied[k]]
    IN  [before EXCEPT !.profile = profile, !.preferences = preferences]

\* C19: an UpdateUser execution that passes the permission check builds, from
\* the document it read, the aggregate in which exactly the supplied fields of
\* profile and preferences (nested notifications and privacy fields included)
\* are replaced, and its save writes and returns that aggregate
C19_UpdateChangesOnlySupplied ==
    [][\A s \in Slots :
        /\ (/\ executions[s] = Idle
            /\ executions'[s].op = "UpdateUser"
            /\ executions'[s].pc = "update")
           => executions'[s].user
              = SuppliedOnly(users[executions'[s].req.userId], executions'[s].req)
        /\ (/\ executions[s].op = "UpdateUser"
            /\ executions[s].pc = "update"
            /\ executions'[s].pc = "done"
            /\ executions'[s].error = "")
           => /\ users'[executions[s].req.userId] = executions[s].user
              /\ executions'[s].result = executions[s].user]_vars

(***************************************************************************)
(* C20                                                                     *)
(***************************************************************************)
\* the positions of the user's active social accounts of the provider
ActiveOf(user, provider) ==
    {a \in 1..Len(user.socialAccounts) :
        user.socialAccounts[a].provider = provider /\ user.socialAccounts[a].isActive}

\* the aggregates there are: the stored documents and those the executions hold
Aggregates ==
    {users[i] : i \in DOMAIN users}
    \cup {executions[s].user : s \in {t \in Slots : executions[t] # Idle /\ executions[t].user # NoUser}}

\* C20: every aggregate, stored or held by an execution, has at most one
\* active social account per provider; and a linkSocialAccount call on a user
\* who has an active account of the provider appends nothing: the user keeps
\* as many accounts and has exactly one active account of the provider, with
\* the providerId of the call
C20_OneActivePerProvider ==
    /\ [](\A user \in Aggregates : \A provider \in Providers :
             Cardinality(ActiveOf(user, provider)) <= 1)
    /\ [][\A s \in Slots :
            (/\ LinkLooksUp(s)
             /\ executions'[s].pc = "update"
             /\ ActiveOf(executions[s].user, executions[s].req.provider) # {})
            => /\ Len(executions'[s].user.socialAccounts) = Len(executions[s].user.socialAccounts)
               /\ \E a \in 1..Len(executions'[s].user.socialAccounts) :
                     /\ ActiveOf(executions'[s].user, executions[s].req.provider) = {a}
                     /\ executions'[s].user.socialAccounts[a].providerId
                        = executions[s].req.providerId]_vars

\* witness: two executions have linked google to user 2 with different
\* providerIds and both returned, and the stored user has one google account
C20_Witness ==
    \E s, t \in Slots :
        /\ executions[s].op = "LinkSocialAccount" /\ executions[t].op = "LinkSocialAccount"
        /\ executions[s].pc = "done" /\ executions[t].pc = "done"
        /\ executions[s].error = "" /\ executions[t].error = ""
        /\ executions[s].req.userId = 2 /\ executions[t].req.userId = 2
        /\ executions[s].req.provider = "google" /\ executions[t].req.provider = "google"
        /\ executions[s].req.providerId = "p1" /\ executions[t].req.providerId = "p2"
        /\ executions[s].result.socialAccounts
           = <<[provider |-> "google", providerId |-> "p1", isActive |-> TRUE]>>
        /\ executions[t].result.socialAccounts
           = <<[provider |-> "google", providerId |-> "p2", isActive |-> TRUE]>>
        /\ Len(users[2].socialAccounts) = 1

(***************************************************************************)
(* Addresses of one aggregate                                              *)
(***************************************************************************)
MaxAddresses == 3

AddressTypes == {"home", "work", "other"}

\* Omit<Address, 'id' | 'createdAt' | 'updatedAt'>, the fields that matter
AddressInputs == [type : AddressTypes, isDefault : BOOLEAN]

\* user.addAddress(address) on the aggregate of user i
AddAddress(i, address) ==
    /\ i \in DOMAIN users
    /\ Len(users[i].addresses) < MaxAddresses
    /\ users' = [users EXCEPT ![i] = addAddress(@, address)]
    /\ UNCHANGED executions

\* one aggregate with no address
InitAddress ==
    /\ \E visibility \in Visibilities : users = (2 :> User2(visibility))
    /\ executions = [s \in Slots |-> Idle]

NextAddress == \E address \in AddressInputs : AddAddress(2, address)

SpecAddress == InitAddress /\ [][NextAddress]_vars

(***************************************************************************)
(* C21                                                                     *)
(***************************************************************************)
\* the positions of the default addresses
DefaultsOf(addresses) == {a \in 1..Len(addresses) : addresses[a].isDefault}

\* C21: after any sequence of addAddress calls from an empty list at most one
\* address is the default, and exactly one as soon as there is an address;
\* the first address added is the default whatever flag it was given, and an
\* address added with isDefault = true is the only default afterwards
C21_OneDefaultAddress ==
    \A i \in DOMAIN users :
        /\ Cardinality(DefaultsOf(users[i].addresses)) <= 1
        /\ Len(users[i].addresses) > 0 => Cardinality(DefaultsOf(users[i].addresses)) = 1
        /\ \A address \in AddressInputs :
              LET after == addAddress(users[i], address).addresses
              IN  /\ Len(after) = Len(users[i].addresses) + 1
                  /\ Len(users[i].addresses) = 0 => DefaultsOf(after) = {1}
                  /\ address.isDefault => DefaultsOf(after) = {Len(after)}
                  /\ Cardinality(DefaultsOf(after)) = 1

\* witness: the first address lost the default to the second, which was added
\* as default, and the third was added without the flag
C21_Witness ==
    /\ Len(users[2].addresses) = 3
    /\ ~users[2].addresses[1].isDefault
    /\ users[2].addresses[2].isDefault
    /\ ~users[2].addresses[3].isDefault

(***************************************************************************)
(* Email construction                                                      *)
(***************************************************************************)
Pads == {<<>>, <<" ">>}

\* addresses in lower and upper case, bare and with whitespace around, and a
\* string that is no address
EmailInputs ==
    {leading \o email \o trailing :
        leading \in Pads, trailing \in Pads,
        email \in {EmailA, EmailB, EmailBUpper, EmailC, EmailMalformed}}

\* new Email(email): the error thrown, or the value of the object
NewEmail(email) ==
    IF ~EmailIsValid(email)
    THEN [error |-> "Invalid email format", value |-> <<>>]
    ELSE [error |-> "", value |-> EmailValue(email)]

\* one construction, recorded with its argument
EmailConstruct(email) ==
    /\ HasFreeSlot
    /\ executions' = [executions EXCEPT ![FreeSlot] =
           Done("Email", [email |-> email], NewEmail(email).error, NoUser,
                [id |-> 0, value |-> NewEmail(email).value])]
    /\ UNCHANGED users

InitEmail ==
    /\ users = (1 :> Admin1)
    /\ executions = [s \in Slots |-> Idle]

NextEmail == \E email \in EmailInputs : EmailConstruct(email)

SpecEmail == InitEmail /\ [][NextEmail]_vars

(***************************************************************************)
(* C22                                                                     *)
(***************************************************************************)
\* C22, as claimed: for every string whose lower-cased, trimmed form is a
\* valid address, constructing an Email from it succeeds and yields the value
\* that constructing from the lower-cased, trimmed form yields
C22_EmailStableUnderCaseAndSpace ==
    \A s \in Slots :
        (/\ executions[s].op = "Email"
         /\ EmailIsValid(Trim(ToLowerCase(executions[s].req.email))))
        => /\ executions[s].error = ""
           /\ executions[s].result.value
              = NewEmail(Trim(ToLowerCase(executions[s].req.email))).value

(***************************************************************************)
(* presentUserWithPrivacy                                                  *)
(***************************************************************************)
\* an object literal of the named fields of a record; a field the record
\* does not have is undefined and is not sent
Pick(record, fields) == [f \in fields \cap DOMAIN record |-> record[f]]

\* the view of a private profile for another user
presentPrivateProfile(user) ==
    [id |-> user.id,
     username |-> user.username,
     profile |-> Pick(user.profile, {"firstName", "lastName", "displayName"}),
     emailVerified |-> user.emailVerified]

presentPublicProfile(user) ==
    [id |-> user.id,
     username |-> user.username,
     profile |-> Pick(user.profile, {"firstName", "lastName", "displayName", "avatarUrl", "bio"}),
     emailVerified |-> user.emailVerified]

\* mutant: the privacy setting is not looked at
presentUserWithPrivacyPublic(user, requestingUserId, requestingUserRole) ==
    IF requestingUserRole = "admin" THEN presentUser(user)
    ELSE IF requestingUserId = user.id THEN presentUser(user)
    ELSE presentPublicProfile(user)

presentUserWithPrivacy(user, requestingUserId, requestingUserRole) ==
    IF requestingUserRole = "admin" THEN presentUser(user)
    ELSE IF requestingUserId = user.id THEN presentUser(user)
    ELSE IF user.preferences.privacy.profileVisibility = "private"
    THEN presentPrivateProfile(user)
    ELSE presentPublicProfile(user)

\* one call, recorded with its arguments: req is the requester and the id of
\* the user presented
PresentWithPrivacy(req) ==
    /\ HasFreeSlot
    /\ req.userId \in DOMAIN users
    /\ executions' = [executions EXCEPT ![FreeSlot] =
           Done("presentUserWithPrivacy", req, "", users[req.userId],
                presentUserWithPrivacy(users[req.userId], req.requestingUserId,
                                       req.requestingUserRole))]
    /\ UNCHANGED users

ProfileFilled ==
    [firstName |-> "F", lastName |-> "L", displayName |-> "D", avatarUrl |-> "u", bio |-> "b"]

\* the administrator, and a user of any visibility whose profile has the
\* required fields only or every field
InitPresent ==
    /\ \E visibility \in Visibilities, profile \in {[firstName |-> "F", lastName |-> "L"], ProfileFilled} :
          users = (1 :> Admin1) @@ (2 :> [User2(visibility) EXCEPT !.profile = profile])
    /\ executions = [s \in Slots |-> Idle]

NextPresent == \E req \in OnUser : PresentWithPrivacy(req)

SpecPresent == InitPresent /\ [][NextPresent]_vars

(***************************************************************************)
(* C23                                                                     *)
(***************************************************************************)
\* the view has exactly the fields of the full response, with the user's values
IsFullView(view, user) ==
    /\ DOMAIN view = UserResponseFields
    /\ \A f \in UserResponseFields : view[f] = user[f]

\* the view has the identity fields and the named profile fields the user
\* has, and nothing else
IsViewWith(view, user, profileFields) ==
    /\ DOMAIN view = {"id", "username", "profile", "emailVerified"}
    /\ view.id = user.id /\ view.username = user.username
    /\ view.emailVerified = user.emailVerified
    /\ DOMAIN view.profile = profileFields \cap DOMAIN user.profile
    /\ \A f \in DOMAIN view.profile : view.profile[f] = user.profile[f]

\* C23: presentUserWithPrivacy returns the full view to an admin and to the
\* user themselves; to anyone else the minimal view (names and verification,
\* no email, role, bio or avatar) of a private profile, and the public view
\* (no email, no role) of any other profile
C23_ViewByRequester ==
    \A s \in Slots :
        executions[s].op = "presentUserWithPrivacy"
        => LET req == executions[s].req
               user == executions[s].user
               view == executions[s].result
           IN  IF req.requestingUserRole = "admin" \/ req.requestingUserId = user.id
               THEN IsFullView(view, user)
               ELSE IF user.preferences.privacy.profileVisibility = "private"
               THEN IsViewWith(view, user, {"firstName", "lastName", "displayName"})
               ELSE IsViewWith(view, user,
                               {"firstName", "lastName", "displayName", "avatarUrl", "bio"})

\* witness: a private user with a bio and an avatar was presented to another
\* user without them, and to themselves in full
C23_Witness ==
    \E s, t \in Slots :
        /\ executions[s].op = "presentUserWithPrivacy"
        /\ executions[t].op = "presentUserWithPrivacy"
        /\ executions[s].req = [userId |-> 2, requestingUserId |-> 3, requestingUserRole |-> "user"]
        /\ executions[t].req = [userId |-> 2, requestingUserId |-> 2, requestingUserRole |-> "user"]
        /\ executions[s].user.preferences.privacy.profileVisibility = "private"
        /\ "bio" \in DOMAIN executions[s].user.profile
        /\ "bio" \notin DOMAIN executions[s].result.profile
        /\ "email" \notin DOMAIN executions[s].result
        /\ "email" \in DOMAIN executions[t].result

(***************************************************************************)
(* Page sizes on a seeded store                                            *)
(***************************************************************************)
\* limits below, at and above the defaults and the caps, and the number 0
PageLimits == {0, 1, 20, 50, 51, 100, 101, 200}

\* an administrator lists and searches, with no options or with a limit
PageListRequests ==
    {[requestingUserRole |-> "admin"]}
    \cup {[requestingUserRole |-> "admin", options |-> [limit |-> limit]] : limit \in PageLimits}

PageSearchRequests ==
    {[query |-> UsernameBob, requestingUserRole |-> "admin"]}
    \cup {[query |-> UsernameBob, requestingUserRole |-> "admin", options |-> [limit |-> limit]] :
            limit \in PageLimits}

NextPage ==
    \/ \E req \in PageListRequests : ListUsersStart(req)
    \/ \E s \in Slots : ListUsersFindAll(s)
    \/ \E req \in PageSearchRequests : SearchUsersStart(req)
    \/ \E s \in Slots : SearchUsersSearch(s)

SpecPage == InitRead /\ [][NextPage]_vars

(***************************************************************************)
(* C24                                                                     *)
(***************************************************************************)
\* the hard cap of the use case
CapOf(op) == IF op = "ListUsers" THEN MaxPageLimit ELSE MaxSearchLimit

\* the request gives a limit
GivesLimit(req) == "options" \in DOMAIN req /\ "limit" \in DOMAIN req.options

\* the executions that have handed options to the persistence port
Forwarding == {s \in Slots : executions[s].op \in {"ListUsers", "SearchUsers"}
                             /\ "call" \in DOMAIN executions[s]}

\* C24, as claimed: the page size forwarded to the persistence port is the
\* requested limit if that is at most the cap (100 for ListUsers, 50 for
\* SearchUsers), the cap if it is above, and 20 when the request gives no limit
C24_PageSizeAsClaimed ==
    \A s \in Forwarding :
        LET req == executions[s].req
            forwarded == executions[s].call.options.limit
        IN  IF ~GivesLimit(req) THEN forwarded = DefaultPageLimit
            ELSE IF req.options.limit <= CapOf(executions[s].op)
            THEN forwarded = req.options.limit
            ELSE forwarded = CapOf(executions[s].op)

\* C24, amended: a requested limit of 0 counts as no limit. The page size
\* forwarded never exceeds the cap; it is 20 when the request gives no limit
\* or the limit 0, the requested limit if that is from 1 to the cap, and the
\* cap if it is above; a request above the cap is not rejected
C24_PageSizeCapped ==
    \A s \in Slots :
        (/\ executions[s].op \in {"ListUsers", "SearchUsers"}
         /\ executions[s].req.requestingUserRole = "admin")
        => /\ s \in Forwarding
           /\ LET req == executions[s].req
                  forwarded == executions[s].call.options.limit
              IN  /\ forwarded <= CapOf(executions[s].op)
                  /\ IF ~GivesLimit(req) \/ req.options.limit = 0
                     THEN forwarded = DefaultPageLimit
                     ELSE IF req.options.limit <= CapOf(executions[s].op)
                     THEN forwarded = req.options.limit
                     ELSE forwarded = CapOf(executions[s].op)

\* witness: a list asked with 200 forwards 100 while a search asked with 51
\* forwards 50
C24_Witness ==
    \E s, t \in Forwarding :
        /\ executions[s].op = "ListUsers"
        /\ GivesLimit(executions[s].req) /\ executions[s].req.options.limit = 200
        /\ executions[s].call.options.limit = 100
        /\ executions[s].error = ""
        /\ executions[t].op = "SearchUsers"
        /\ GivesLimit(executions[t].req) /\ executions[t].req.options.limit = 51
        /\ executions[t].call.options.limit = 50

(***************************************************************************)
(* C25                                                                     *)
(***************************************************************************)
\* the profile fields that request a supplies and request b does not
ProfileOnlyBy(a, b) ==
    (IF "profile" \in DOMAIN a THEN DOMAIN a.profile ELSE {})
    \ (IF "profile" \in DOMAIN b THEN DOMAIN b.profile ELSE {})

\* the same for the fields of preferences that are not nested objects
PreferencesOnlyBy(a, b) ==
    ((IF "preferences" \in DOMAIN a THEN DOMAIN a.preferences ELSE {})
     \ (IF "preferences" \in DOMAIN b THEN DOMAIN b.preferences ELSE {}))
    \cap {"language", "timezone"}

\* C25, as claimed: when an UpdateUser execution persists after another one
\* on the same user has, a profile or preferences field that only the
\* earlier request supplied, and that is stored with that request's value,
\* still has that value in the stored record afterwards: the later write
\* takes only the fields its own request supplies
C25_FieldLastWriteWins ==
    [][\A s, t \in Slots :
        (/\ s # t
         /\ executions[s].op = "UpdateUser" /\ executions[t].op = "UpdateUser"
         /\ executions[s].pc = "done" /\ executions[s].error = ""
         /\ executions[t].pc = "update"
         /\ executions'[t].pc = "done" /\ executions'[t].error = ""
         /\ executions[s].req.userId = executions[t].req.userId)
        => LET id == executions[s].req.userId
               first == executions[s].req
               second == executions[t].req
           IN  /\ \A f \in ProfileOnlyBy(first, second) :
                     users[id].profile[f] = first.profile[f]
                     => users'[id].profile[f] = first.profile[f]
               /\ \A f \in PreferencesOnlyBy(first, second) :
                     users[id].preferences[f] = first.preferences[f]
                     => users'[id].preferences[f] = first.preferences[f]]_vars

(***************************************************************************)
(* C26                                                                     *)
(***************************************************************************)
\* C26, as claimed: in every state in which a DeleteUser execution has
\* completed successfully for a user, that user's stored record is inactive
\* and suspended, whatever other executions on the same user were in flight
\* when the delete completed or have run since
C26_DeletedStaysDeleted ==
    \A s \in Slots :
        (/\ executions[s].op = "DeleteUser"
         /\ executions[s].pc = "done"
         /\ executions[s].error = "")
        => /\ executions[s].req.userId \in DOMAIN users
           /\ ~users[executions[s].req.userId].isActive
           /\ users[executions[s].req.userId].isSuspended

(***************************************************************************)
(* Protected routes                                                        *)
(***************************************************************************)
\* a bearer token is the payload it was signed with; this one stands for a
\* missing, forged or expired token, which jwt.verify rejects
InvalidToken == [userId |-> 0, email |-> <<>>, role |-> ""]

\* userService.verifyToken: the signature and the expiry, nothing of the store
verifyToken(token) == token # InvalidToken

TokenRejected == "Invalid or expired token"
AdminRequired == "Administrator access required"
SelfOrAdminRequired == "You can only access your own resources or must be an admin"

\* what a route was asked: the route, the bearer token and the :userId parameter
HttpRequest(route, token, userId) == [route |-> route, token |-> token, userId |-> userId]

\* a middleware answers and the handler does not run
Refuse(middleware, httpRequest, statusCode, message) ==
    /\ executions' = [executions EXCEPT ![FreeSlot] =
           Done(middleware, httpRequest, message, NoUser, NoUser) @@ [statusCode |-> statusCode]]
    /\ UNCHANGED users

\* req.user, as the controller hands it to the use cases
AsRequester(token, userId) ==
    [userId |-> userId, requestingUserId |-> token.userId, requestingUserRole |-> token.role]

\* mutant: every authenticated requester passes requireSelfOrAdmin
SelfOrAdminAnyone(token, userId) == TRUE

SelfOrAdmin(token, userId) == token.role = "admin" \/ token.userId = userId

\* router.use(authenticate), then requireSelfOrAdmin on the routes with
\* :userId: the middleware that answers and its answer, or "next"
Guard(token, userId) ==
    IF ~verifyToken(token)
    THEN [middleware |-> "authenticate", statusCode |-> 401, message |-> TokenRejected]
    ELSE IF ~SelfOrAdmin(token, userId)
    THEN [middleware |-> "requireSelfOrAdmin", statusCode |-> 403,
          message |-> SelfOrAdminRequired]
    ELSE [middleware |-> "next", statusCode |-> 0, message |-> ""]

Passes(token, userId) == Guard(token, userId).middleware = "next"

RefuseBy(guard, httpRequest) ==
    Refuse(guard.middleware, httpRequest, guard.statusCode, guard.message)

\* GET /profile
HttpGetProfile(token) ==
    /\ HasFreeSlot
    /\ IF ~verifyToken(token)
       THEN Refuse("authenticate", HttpRequest("GET /profile", token, 0), 401, TokenRejected)
       ELSE GetUser(AsRequester(token, token.userId))

\* GET /search?q=...
HttpSearchUsers(token, q) ==
    /\ HasFreeSlot
    /\ IF ~verifyToken(token)
       THEN Refuse("authenticate", HttpRequest("GET /search", token, 0), 401, TokenRejected)
       ELSE SearchUsersStart([query |-> q, requestingUserRole |-> token.role,
                              options |-> [limit |-> DefaultPageLimit, skip |-> 0,
                                           includeInactive |-> FALSE]])

\* GET /
HttpGetAllUsers(token) ==
    /\ HasFreeSlot
    /\ IF ~verifyToken(token)
       THEN Refuse("authenticate", HttpRequest("GET /", token, 0), 401, TokenRejected)
       ELSE IF token.role # "admin"
       THEN Refuse("requireAdmin", HttpRequest("GET /", token, 0), 403, AdminRequired)
       ELSE ListUsersStart([requestingUserRole |-> token.role,
                            options |-> [page |-> 1, limit |-> DefaultPageLimit]])

\* GET /:userId
HttpGetUser(token, userId) ==
    /\ HasFreeSlot
    /\ IF ~Passes(token, userId)
       THEN RefuseBy(Guard(token, userId), HttpRequest("GET /:userId", token, userId))
       ELSE GetUser(AsRequester(token, userId))

\* PUT /:userId
HttpUpdateUser(token, userId, dto) ==
    /\ HasFreeSlot
    /\ IF ~Passes(token, userId)
       THEN RefuseBy(Guard(token, userId), HttpRequest("PUT /:userId", token, userId))
       ELSE UpdateUserFind(AsRequester(token, userId) @@ dto)

\* DELETE /:userId
HttpDeleteUser(token, userId) ==
    /\ HasFreeSlot
    /\ IF ~Passes(token, userId)
       THEN RefuseBy(Guard(token, userId), HttpRequest("DELETE /:userId", token, userId))
       ELSE DeleteUserFind(AsRequester(token, userId))

\* POST /:userId/social
HttpLinkSocialAccount(token, userId, dto) ==
    /\ HasFreeSlot
    /\ IF ~Passes(token, userId)
       THEN RefuseBy(Guard(token, userId), HttpRequest("POST /:userId/social", token, userId))
       ELSE LinkSocialAccountFind(AsRequester(token, userId) @@ dto)

(***************************************************************************)
(* Requests with tokens on a seeded store                                  *)
(***************************************************************************)
\* the administrator and the user have logged in once and hold their tokens
LoggedIn(user) == [user EXCEPT !.loginCount = 1]

Tokens == {TokenPayload(Admin1), TokenPayload(User2("public")), InvalidToken}

InitAuth ==
    /\ \E visibility \in {"public", "private"} :
          users = (1 :> LoggedIn(Admin1)) @@ (2 :> LoggedIn(User2(visibility)))
    /\ executions = [s \in Slots |-> Idle]

NextAuth ==
    \/ \E token \in Tokens : HttpGetProfile(token)
    \/ \E token \in Tokens : HttpSearchUsers(token, UsernameCat)
    \/ \E s \in Slots : SearchUsersSearch(s)
    \/ \E token \in Tokens : HttpGetAllUsers(token)
    \/ \E s \in Slots : ListUsersFindAll(s)
    \/ \E token \in Tokens, userId \in {1, 2} : HttpGetUser(token, userId)
    \/ \E token \in Tokens, userId \in {1, 2} :
          HttpUpdateUser(token, userId, [profile |-> [firstName |-> "G"]])
    \/ \E s \in Slots : UpdateUserSave(s)
    \/ \E token \in Tokens, userId \in {1, 2} : HttpDeleteUser(token, userId)
    \/ \E s \in Slots : DeleteUserSave(s)
    \/ \E token \in Tokens, userId \in {1, 2} :
          HttpLinkSocialAccount(token, userId, [provider |-> "google", providerId |-> "p1"])
    \/ \E s \in Slots : LinkSocialAccountCheck(s)
    \/ \E s \in Slots : LinkSocialAccountSave(s)

SpecAuth == InitAuth /\ [][NextAuth]_vars

(***************************************************************************)
(* C27                                                                     *)
(***************************************************************************)
\* the account whose token came with the request of an execution
TokenAccountOf(execution) ==
    IF "token" \in DOMAIN execution.req THEN execution.req.token.userId
    ELSE execution.req.requestingUserId

\* C27, as claimed: once a DeleteUser has completed successfully for an
\* account, a request to a protected route that arrives with the token issued
\* to that account is answered 401 by authenticate and nothing else happens
C27_DeletedTokenRejected ==
    [][\A s, t \in Slots :
        (/\ executions[s].op = "DeleteUser"
         /\ executions[s].pc = "done"
         /\ executions[s].error = ""
         /\ executions[t] = Idle
         /\ executions'[t] # Idle
         /\ TokenAccountOf(executions'[t]) = executions[s].req.userId)
        => /\ executions'[t].op = "authenticate"
           /\ executions'[t].error = TokenRejected
           /\ users' = users]_vars

(***************************************************************************)
(* Every operation on registered accounts                                  *)
(***************************************************************************)
RegisterBob ==
    [email |-> EmailB, username |-> UsernameBob, password |-> PasswordOne,
     firstName |-> "F", lastName |-> "L"]

RegisterCat ==
    [email |-> EmailC, username |-> UsernameCat, password |-> PasswordOne,
     firstName |-> "F", lastName |-> "L"]

\* the document userRepository.create stores for a registration
Registered(id, req) == [CreateUserEntity(req) EXCEPT !.id = id]

\* each registered account asks for itself
OnSelf == {[userId |-> id, requestingUserId |-> id, requestingUserRole |-> "user"] : id \in {2, 3}}

\* the administrator of the seed, alone or with an account that has registered
InitVerify ==
    /\ users \in {(1 :> Admin1), (1 :> Admin1) @@ (2 :> Registered(2, RegisterBob))}
    /\ executions = [s \in Slots |-> Idle]

NextVerify ==
    \/ CreateUserExists(RegisterCat)
    \/ \E s \in Slots : CreateUserSave(s)
    \/ \E email \in {EmailA, EmailB, EmailC} :
          LoginUserFind([email |-> email, password |-> PasswordOne])
    \/ \E s \in Slots : LoginUserUpdate(s)
    \/ \E req \in OnSelf : GetUser(req)
    \/ \E req \in OnSelf : UpdateUserFind(With(req, "profile", [firstName |-> "G"]))
    \/ \E s \in Slots : UpdateUserSave(s)
    \/ \E req \in OnSelf : DeleteUserFind(req)
    \/ \E s \in Slots : DeleteUserSave(s)
    \/ \E req \in OnSelf :
          LinkSocialAccountFind(With(With(req, "provider", "google"), "providerId", "p1"))
    \/ \E s \in Slots : LinkSocialAccountCheck(s)
    \/ \E s \in Slots : LinkSocialAccountSave(s)
    \/ ListUsersStart([requestingUserRole |-> "admin"])
    \/ \E s \in Slots : ListUsersFindAll(s)
    \/ SearchUsersStart([query |-> UsernameCat, requestingUserRole |-> "admin"])
    \/ \E s \in Slots : SearchUsersSearch(s)

SpecVerify == InitVerify /\ [][NextVerify]_vars

(***************************************************************************)
(* C28                                                                     *)
(***************************************************************************)
\* the accounts created by registration: every account but the seeded administrator
RegisteredIds == DOMAIN users \ {1}

\* C28: under register, login, get, update, delete, list, search and link,
\* no step changes the emailVerified flag of a stored account; every account
\* created by registration has emailVerified = false and loginCount = 0, and
\* no LoginUser execution gets past canLogin for such an account
C28_NeverVerified ==
    /\ [](/\ \A i \in RegisteredIds : ~users[i].emailVerified /\ users[i].loginCount = 0
          /\ \A s \in Slots :
                (/\ executions[s].op = "LoginUser"
                 /\ executions[s].error = ""
                 /\ executions[s].user # NoUser)
                => executions[s].user.id \notin RegisteredIds)
    /\ [][\A i \in DOMAIN users :
            i \in DOMAIN users' /\ users'[i].emailVerified = users[i].emailVerified]_vars

\* witness: an account has registered, and its login with the right password
\* was refused because the email is not verified
C28_Witness ==
    \E s, t \in Slots :
        /\ executions[s].op = "CreateUser"
        /\ executions[s].pc = "done"
        /\ executions[s].error = ""
        /\ executions[s].result.id \in RegisteredIds
        /\ executions[t].op = "LoginUser"
        /\ executions[t].pc = "done"
        /\ executions[t].req.email = executions[s].result.email
        /\ comparePassword(executions[t].req.password, executions[s].result.passwordHash)
        /\ executions[t].error = "Cannot login: email is not verified"
        /\ users[executions[s].result.id].loginCount = 0

(***************************************************************************)
(* C29                                                                     *)
(***************************************************************************)
\* the LoginUser executions that have completed successfully for account i
LoginsCompleted(i) ==
    {s \in Slots : /\ executions[s].op = "LoginUser"
                   /\ executions[s].pc = "done"
                   /\ executions[s].error = ""
                   /\ executions[s].result.id = i}

\* C29, as claimed: in every reachable state the stored loginCount of an
\* account is its initial loginCount, which is 0 for every seeded account,
\* plus the number of LoginUser executions that have completed successfully
\* for it, also when logins for the account run concurrently
C29_LoginCountCountsLogins ==
    \A i \in DOMAIN users :
        users[i].loginCount = Cardinality(LoginsCompleted(i))

(***************************************************************************)
(* C30                                                                     *)
(***************************************************************************)
\* the use cases behind the routes with a :userId parameter
OnUserIdOps == {"GetUser", "UpdateUser", "DeleteUser", "LinkSocialAccount"}

\* the executions a handler has answered successfully for a requester who is
\* authenticated and not an admin
AnsweredToNonAdmin ==
    {s \in Slots : /\ executions[s].op \in OnUserIdOps \cup {"ListUsers", "SearchUsers"}
                   /\ executions[s].pc = "done"
                   /\ executions[s].error = ""
                   /\ executions[s].req.requestingUserRole # "admin"}

\* C30: over the protected routes, a requester whose token does not have the
\* role admin never reaches the handler of GET, PUT, DELETE or social-link
\* with another user's id (requireSelfOrAdmin answers 403) nor the handler of
\* the listing (requireAdmin answers 403); every user sent to such a
\* requester with an email or a role is the requester; and the search
\* results presented to a non-admin have no email, role or isActive field
C30_NonAdminSeesOnlySelf ==
    /\ \A s \in Slots :
          /\ executions[s].op \in OnUserIdOps
             => \/ executions[s].req.requestingUserRole = "admin"
                \/ executions[s].req.requestingUserId = executions[s].req.userId
          /\ executions[s].op = "ListUsers" => executions[s].req.requestingUserRole = "admin"
          /\ executions[s].op \in {"requireSelfOrAdmin", "requireAdmin"}
             => executions[s].statusCode = 403 /\ executions[s].result = NoUser
    /\ \A s \in AnsweredToNonAdmin :
          LET data == ResponseData(executions[s])
          IN  /\ "user" \in DOMAIN data
                 => data.user.id = executions[s].req.requestingUserId
              /\ "users" \in DOMAIN data
                 => \A k \in 1..Len(data.users) :
                       DOMAIN data.users[k] \cap {"email", "role", "isActive"} = {}
    /\ \A i, j \in DOMAIN users :
          LET sent == presentSearchResults(<<users[i], users[j]>>, "user")
          IN  \A k \in 1..Len(sent) : DOMAIN sent[k] \cap {"email", "role", "isActive"} = {}

\* witness: the user was refused the administrator's record with 403 by
\* requireSelfOrAdmin, and was sent their own record with their email
C30_Witness ==
    \E s, t \in Slots :
        /\ executions[s].op = "requireSelfOrAdmin"
        /\ executions[s].req.route = "GET /:userId"
        /\ executions[s].req.token.role = "user"
        /\ executions[s].req.token.userId = 2
        /\ executions[s].req.userId = 1
        /\ executions[s].statusCode = 403
        /\ t \in AnsweredToNonAdmin
        /\ executions[t].op = "GetUser"
        /\ executions[t].req.requestingUserId = 2
        /\ ResponseData(executions[t]).user.email = users[2].email

====
